---- MODULE Spec2Model ----
(***************************************************************************)
(* Data Center Feasibility Tool: the land/IT allocator (calc), the         *)
(* reliability-sizing engine (manualMixCalc, shareCalc) and the memoised   *)
(* re-computation of both, as found in the four copies of the component    *)
(* that the repository holds:                                              *)
(*   "V010" src/src/DataCenterFeasibilityTool.tsx lines 1-818              *)
(*   "V4"   src/src/DataCenterFeasibilityTool.tsx lines 820-1876           *)
(*   "Js"   src/unnamed/part_001 lines 1-1136                              *)
(*   "Map"  src/unnamed/part_001 lines 1137-3801                           *)
(* A JavaScript number is modelled as an exact rational <<n, d>>, d > 0,   *)
(* in lowest terms; IEEE rounding is not modelled.                         *)
(***************************************************************************)
EXTENDS Integers, Sequences, FiniteSets, TLC

VARIABLES variant, inputs, shares, mix, elcc, bessHours, elccEnabled,
          calc, shareCalc, manualMixCalc,
          pc, units, guard, firmAfterLoss, dropList,
          memo, replaced,
          layout, showReliability, kDrop,
          saved

vars == <<variant, inputs, shares, mix, elcc, bessHours, elccEnabled,
          calc, shareCalc, manualMixCalc,
          pc, units, guard, firmAfterLoss, dropList, memo, replaced,
          layout, showReliability, kDrop, saved>>

\* the state of the mapping tab (Map copy): the features of the layout, the switch of the
\* reliability overlay and its k
mapVars == <<layout, showReliability, kDrop>>

\* useState({ type: "FeatureCollection", features: [] }), useState(true), useState(1)
MapInit == layout = <<>> /\ showReliability = TRUE /\ kDrop = 1

(* ------------------------- exact rational numbers ---------------------- *)
Abs(x) == IF x < 0 THEN -x ELSE x

RECURSIVE GCD(_, _)
GCD(a, b) == IF b = 0 THEN a ELSE GCD(b, a % b)

R(n, d) ==
  LET s == IF d < 0 THEN -1 ELSE 1
      g == GCD(Abs(n), Abs(d))
  IN  IF n = 0 THEN <<0, 1>> ELSE <<(s * n) \div g, (s * d) \div g>>

RInt(i) == <<i, 1>>
RZero == <<0, 1>>
ROne == <<1, 1>>

RMul(a, b) ==
  LET g1 == GCD(Abs(a[1]), b[2])
      g2 == GCD(Abs(b[1]), a[2])
  IN  IF a[1] = 0 \/ b[1] = 0 THEN RZero
      ELSE <<(a[1] \div g1) * (b[1] \div g2), (a[2] \div g2) * (b[2] \div g1)>>

RInv(a) == IF a[1] < 0 THEN <<-a[2], -a[1]>> ELSE <<a[2], a[1]>>
RDiv(a, b) == RMul(a, RInv(b))

RAdd(a, b) ==
  LET g == GCD(a[2], b[2])
  IN  R(a[1] * (b[2] \div g) + b[1] * (a[2] \div g), (a[2] \div g) * b[2])

RNeg(a) == <<-a[1], a[2]>>
RSub(a, b) == RAdd(a, RNeg(b))

RLE(a, b) ==
  LET g == GCD(a[2], b[2])
  IN  a[1] * (b[2] \div g) <= b[1] * (a[2] \div g)
RLT(a, b) == ~RLE(b, a)
RGE(a, b) == RLE(b, a)
RGT(a, b) == ~RLE(a, b)

RMax(a, b) == IF RLE(a, b) THEN b ELSE a
RMin(a, b) == IF RLE(a, b) THEN a ELSE b

\* Math.floor and Math.ceil, as integers
RFloor(a) == a[1] \div a[2]
RCeil(a) == -((-a[1]) \div a[2])

RECURSIVE RSum(_)
RSum(s) == IF s = <<>> THEN RZero ELSE RAdd(Head(s), RSum(Tail(s)))

(* ------------------------------ helpers -------------------------------- *)
acresToSqft(acres) == RMul(acres, RInt(43560))
galPerHourToGpm(gph) == RDiv(gph, RInt(60))
litersToGallons(l) == RDiv(l, R(378541, 100000))

BTU_PER_SCF == 1037

Variants == {"V010", "V4", "Js", "Map"}

\* null, the value a memoised callback returns for the inactive mix mode
NULL == [null |-> TRUE]

(* --------------------------- Land/IT allocator ------------------------- *)
\* Math.min(hi, Math.max(0, pct / 100))
ClampFrac(pct, hi) == RMin(hi, RMax(RZero, RDiv(pct, RInt(100))))

\* Array.prototype.slice(0, n)
Slice(s, n) == IF n >= Len(s) THEN s ELSE SubSeq(s, 1, n)

\* const racks = Math.floor(whiteSqft / sqftPerRack), sqftPerRack clamped to >= 1;
\* the V0.10 copy computes Math.floor(Math.max(1, whiteSqft) / Math.max(1, sqftPerRack))
Racks(v, whiteSqft, sqftPerRack) ==
  IF v = "V010" THEN RFloor(RDiv(RMax(ROne, whiteSqft), sqftPerRack))
  ELSE RFloor(RDiv(whiteSqft, sqftPerRack))

Calc(v, in) ==
  LET buildableFrac == ClampFrac(in.buildablePct, ROne)
      siteCoverage == ClampFrac(in.siteCoveragePct, ROne)
      supportFrac == ClampFrac(in.supportPct, R(95, 100))
      mepFrac == ClampFrac(in.mepYardPct, ROne)
      roadsFrac == ClampFrac(in.roadsPct, ROne)
      parcelAcres == RMax(RZero, in.parcelAcres)
      buildableAcres == RMul(parcelAcres, buildableFrac)
      buildingFootprintAcres == RMul(buildableAcres, siteCoverage)
      \* Math.max(1, inputs.stories || 1)
      storiesOr1 == IF in.stories = RZero THEN ROne ELSE in.stories
      buildingSqft == RMul(acresToSqft(buildingFootprintAcres), RMax(ROne, storiesOr1))
      supportSqft == RMul(buildingSqft, supportFrac)
      whiteSqft == RMax(RZero, RSub(buildingSqft, supportSqft))
      sqftPerRack == RMax(ROne, in.sqftPerRack)
      racks == Racks(v, whiteSqft, sqftPerRack)
      rackDensityKw == RMax(R(1, 10), in.rackDensityKw)
      itKwFromLand == RMul(RInt(racks), rackDensityKw)
      itMwFromLand == RDiv(itKwFromLand, RInt(1000))
      pue == RMax(ROne, in.pue)
      mepYardAcres == RMul(buildableAcres, mepFrac)
      roadsAcres == RMul(buildableAcres, roadsFrac)
      allocSum == RAdd(RAdd(buildingFootprintAcres, mepYardAcres), RAdd(roadsAcres, in.substationAcres))
      openAcres == RMax(RZero, RSub(buildableAcres, allocSum))
      targetItMw == IF in.mode = "target" THEN RMax(RZero, in.targetItMw) ELSE itMwFromLand
      siteMaxItMw == itMwFromLand
      feasible == IF in.mode = "target" THEN RGE(siteMaxItMw, targetItMw) ELSE RGT(siteMaxItMw, RZero)
      phases == IF in.phases < 1 THEN 1 ELSE in.phases
      total == IF in.mode = "target" THEN targetItMw ELSE siteMaxItMw
      phaseValues == IF in.equalizePhases
                     THEN [i \in 1..phases |-> RDiv(total, RInt(phases))]
                     ELSE [i \in 1..Len(Slice(in.phaseItMw, phases)) |-> RMax(RZero, in.phaseItMw[i])]
      manualSum == RSum(phaseValues)
      effectiveTargetItMw ==
        IF v = "V010" THEN (IF in.mode = "target" THEN targetItMw ELSE siteMaxItMw)
        ELSE (IF in.equalizePhases THEN targetItMw ELSE manualSum)
      itForWater ==
        IF v = "V010" THEN (IF in.mode = "target" THEN (IF in.equalizePhases THEN targetItMw ELSE manualSum) ELSE siteMaxItMw)
        ELSE (IF in.mode = "target" THEN effectiveTargetItMw ELSE siteMaxItMw)
      it_kW == RMul(itForWater, RInt(1000))
      wue_L_per_kWh == RMax(RZero, in.wue_L_per_kWh)
      water_L_per_h_dc == RMul(wue_L_per_kWh, it_kW)
      \* galPerHourToGpm(litersToGallons(water_L_per_h_dc)); both conversions are linear, so
      \* the factor is taken on 1 first, which keeps the exact numerators within 32 bits
      water_gpm_dc == RMul(water_L_per_h_dc, galPerHourToGpm(litersToGallons(ROne)))
  IN  [parcelAcres |-> parcelAcres, buildableAcres |-> buildableAcres,
       buildingFootprintAcres |-> buildingFootprintAcres, buildingSqft |-> buildingSqft,
       supportSqft |-> supportSqft, whiteSqft |-> whiteSqft, racks |-> racks,
       itMwFromLand |-> itMwFromLand, mepYardAcres |-> mepYardAcres, roadsAcres |-> roadsAcres,
       substationAcres |-> in.substationAcres, openAcres |-> openAcres,
       pue |-> pue, effectiveTargetItMw |-> effectiveTargetItMw, phases |-> phases,
       phaseValues |-> phaseValues, water_gpm_dc |-> water_gpm_dc]
      @@ (IF v = "Map" THEN <<>> ELSE [feasible |-> feasible])

\* DEFAULT_INPUTS
DEFAULT_GENLAND ==
  [t \in {"Grid", "Recip (NG)", "SCGT", "CCGT (5000F 1x1)", "Fuel Cells (SOFC)", "PV", "Wind", "BESS"} |->
     CASE t = "Grid" -> [per_unit_acres |-> RZero]
       [] t = "Recip (NG)" -> [per_unit_acres |-> R(7, 10)]
       [] t = "SCGT" -> [per_unit_acres |-> RInt(2)]
       [] t = "CCGT (5000F 1x1)" -> [per_unit_acres |-> RInt(12)]
       [] t = "Fuel Cells (SOFC)" -> [per_unit_acres |-> R(2, 10)]
       [] t = "PV" -> [per_MW_acres |-> R(65, 10)]
       [] t = "Wind" -> [per_MW_acres |-> RInt(40)]
       [] t = "BESS" -> [per_MW_hr |-> R(75, 10000), site_overhead_acres |-> R(5, 10)]]

DEFAULT_INPUTS ==
  [mode |-> "target", parcelAcres |-> RInt(500), buildablePct |-> RInt(30),
   siteCoveragePct |-> RInt(50), stories |-> RInt(1), supportPct |-> RInt(35),
   mepYardPct |-> RInt(15), roadsPct |-> RInt(10), substationAcres |-> RInt(2),
   sqftPerRack |-> RInt(60), rackDensityKw |-> RInt(10), cooling |-> "Air",
   pue |-> R(135, 100), wue_L_per_kWh |-> R(3, 10), targetItMw |-> RInt(100),
   phases |-> 3, equalizePhases |-> TRUE,
   phaseItMw |-> <<R(333, 10), R(333, 10), R(333, 10)>>,
   reliability |-> "99.9", mixMode |-> "share", genSizeToFacility |-> TRUE,
   genLand |-> DEFAULT_GENLAND]

(* ----------------------- technology catalogue -------------------------- *)
firmList == <<"Grid", "Recip (NG)", "SCGT", "CCGT (5000F 1x1)", "Fuel Cells (SOFC)">>
nonFirmList == <<"PV", "Wind", "BESS">>
FirmTechs == {firmList[i] : i \in DOMAIN firmList}
NonFirmTechs == {nonFirmList[i] : i \in DOMAIN nonFirmList}
Techs == FirmTechs \cup NonFirmTechs

MIX_LIBRARY ==
  [t \in Techs |->
    CASE t = "Grid" -> [tech |-> t, unitMW |-> RInt(100), heatRate |-> 0, water_gal_per_MWh |-> 0, isFirm |-> TRUE, fuel |-> "None"]
      [] t = "Recip (NG)" -> [tech |-> t, unitMW |-> RInt(18), heatRate |-> 8924, water_gal_per_MWh |-> 1, isFirm |-> TRUE, fuel |-> "NG"]
      [] t = "SCGT" -> [tech |-> t, unitMW |-> RInt(57), heatRate |-> 10999, water_gal_per_MWh |-> 0, isFirm |-> TRUE, fuel |-> "NG"]
      [] t = "CCGT (5000F 1x1)" -> [tech |-> t, unitMW |-> R(3733, 10), heatRate |-> 7548, water_gal_per_MWh |-> 200, isFirm |-> TRUE, fuel |-> "NG"]
      [] t = "Fuel Cells (SOFC)" -> [tech |-> t, unitMW |-> RInt(10), heatRate |-> 6318, water_gal_per_MWh |-> 0, isFirm |-> TRUE, fuel |-> "NG"]
      [] t = "PV" -> [tech |-> t, unitMW |-> R(403, 100), heatRate |-> 0, water_gal_per_MWh |-> 0, isFirm |-> FALSE, fuel |-> "None"]
      [] t = "Wind" -> [tech |-> t, unitMW |-> R(589, 100), heatRate |-> 0, water_gal_per_MWh |-> 0, isFirm |-> FALSE, fuel |-> "None"]
      [] t = "BESS" -> [tech |-> t, unitMW |-> RInt(100), heatRate |-> 0, water_gal_per_MWh |-> 0, isFirm |-> FALSE, fuel |-> "None"]]

DEFAULT_ELCC == [PV |-> 40, Wind |-> 20, BESS |-> 100]

\* a manual-mix row as addRow / onChangeTech build it: the library entry plus id and units
LibRow(id, t, n) ==
  [id |-> id, tech |-> t, units |-> n, unitMW |-> MIX_LIBRARY[t].unitMW,
   heatRate |-> MIX_LIBRARY[t].heatRate, water_gal_per_MWh |-> MIX_LIBRARY[t].water_gal_per_MWh,
   isFirm |-> MIX_LIBRARY[t].isFirm, fuel |-> MIX_LIBRARY[t].fuel]

(* ------------------------ reliability evaluation ----------------------- *)
kFromReliability(r) == IF r = "99.9" THEN 1 ELSE IF r = "99.99" THEN 2 ELSE 3

\* n entries {tech, size}: the inner for-loop that pushes one tag per physical unit
Repeat(tag, n) == [i \in 1..n |-> tag]

RECURSIVE MaxSize(_)
MaxSize(S) ==
  LET x == CHOOSE y \in S : TRUE
  IN  IF S = {x} THEN x ELSE RMax(x, MaxSize(S \ {x}))

\* Array.prototype.sort((a, b) => b.size - a.size): stable, descending by size
RECURSIVE SortDescFrom(_, _)
SortDescFrom(tags, sizes) ==
  IF sizes = {} THEN <<>>
  ELSE LET m == MaxSize(sizes)
       IN  SelectSeq(tags, LAMBDA g : g.size = m) \o SortDescFrom(tags, sizes \ {m})

SortDesc(tags) == SortDescFrom(tags, {tags[i].size : i \in DOMAIN tags})

RECURSIVE SumSizes(_)
SumSizes(tags) == IF tags = <<>> THEN RZero ELSE RAdd(Head(tags).size, SumSizes(Tail(tags)))

\* the contingency without the descending sort: the first kLoss units in list order are dropped
DropAndRestUnsorted(installed, unitTags, kLoss) ==
  LET lostArr == Slice(unitTags, IF kLoss < Len(unitTags) THEN kLoss ELSE Len(unitTags))
      lost == SumSizes(lostArr)
  IN  [installed |-> installed, firmAfterLoss |-> RMax(RZero, RSub(installed, lost)), dropList |-> lostArr]

\* sortedUnits.slice(0, Math.min(kLoss, sortedUnits.length)) and what is left after it
DropAndRest(installed, unitTags, kLoss) ==
  LET sorted == SortDesc(unitTags)
      lostArr == Slice(sorted, IF kLoss < Len(sorted) THEN kLoss ELSE Len(sorted))
      lost == SumSizes(lostArr)
  IN  [installed |-> installed, firmAfterLoss |-> RMax(RZero, RSub(installed, lost)), dropList |-> lostArr]

RECURSIVE FirmTags(_, _)
FirmTags(unitsMap, i) ==
  IF i > Len(firmList) THEN <<>>
  ELSE LET t == firmList[i]
           n == IF unitsMap[t] < 0 THEN 0 ELSE unitsMap[t]
       IN  Repeat([tech |-> t, size |-> MIX_LIBRARY[t].unitMW], n) \o FirmTags(unitsMap, i + 1)

RECURSIVE FirmInstalled(_, _)
FirmInstalled(unitsMap, i) ==
  IF i > Len(firmList) THEN RZero
  ELSE LET t == firmList[i]
           n == IF unitsMap[t] < 0 THEN 0 ELSE unitsMap[t]
       IN  RAdd(RMul(RInt(n), MIX_LIBRARY[t].unitMW), FirmInstalled(unitsMap, i + 1))

\* shareCalc.evaluate
evaluate(unitsMap, kLoss) == DropAndRest(FirmInstalled(unitsMap, 1), FirmTags(unitsMap, 1), kLoss)

(* ------------------------- required generation ------------------------ *)
\* const reqMW = inputs.genSizeToFacility ? X * calc.pue : X, where X is
\* calc.effectiveTargetItMw, or in the mapping copy
\* bindingIt = Math.min(calc.effectiveTargetItMw, calc.itMwFromLand)
ReqMW(v, in, c) ==
  LET x == IF v = "Map" THEN RMin(c.effectiveTargetItMw, c.itMwFromLand) ELSE c.effectiveTargetItMw
  IN  IF in.genSizeToFacility THEN RMul(x, c.pue) ELSE x

\* a non-firm share capped by what the firm shares leave of 100
PctCapped(sh, t) ==
  LET own == IF sh[t] < 0 THEN 0 ELSE sh[t]
      firm == sh["Grid"] + sh["Recip (NG)"] + sh["SCGT"] + sh["CCGT (5000F 1x1)"] + sh["Fuel Cells (SOFC)"]
      left == IF firm > 100 THEN 0 ELSE 100 - firm
  IN  IF t \in NonFirmTechs /\ own > left THEN left ELSE own

\* Math.max(0, shares[t] || 0)
Pct(sh, t) == IF sh[t] < 0 THEN 0 ELSE sh[t]

RECURSIVE SumFirmFrom(_, _)
SumFirmFrom(sh, i) == IF i > Len(firmList) THEN 0 ELSE Pct(sh, firmList[i]) + SumFirmFrom(sh, i + 1)
SumFirm(sh) == SumFirmFrom(sh, 1)

firmShares(sh) == [i \in DOMAIN firmList |-> [t |-> firmList[i], pct |-> Pct(sh, firmList[i])]]

\* the normalisation left out: each share taken as a fraction of 100
normSharesRaw(v, sh) ==
  LET fs == firmShares(sh)
      sum == SumFirm(sh)
      kept == IF v \in {"V4", "Map"} THEN SelectSeq(fs, LAMBDA x : x.pct > 0) ELSE fs
  IN  [i \in DOMAIN kept |->
        [t |-> kept[i].t,
         f |-> IF sum > 0 THEN R(kept[i].pct, 100)
               ELSE IF kept[i].t = "Grid" THEN ROne ELSE RZero]]

\* normShares: V4 and the mapping copy keep only the technologies with pct > 0;
\* the Js copy keeps all five; the V0.10 copy keeps all five and, when the firm
\* shares sum to 0, gives Grid the whole requirement
normShares(v, sh) ==
  LET fs == firmShares(sh)
      sum == SumFirm(sh)
      kept == IF v \in {"V4", "Map"} THEN SelectSeq(fs, LAMBDA x : x.pct > 0) ELSE fs
  IN  [i \in DOMAIN kept |->
        [t |-> kept[i].t,
         f |-> IF sum > 0 THEN R(kept[i].pct, sum)
               ELSE IF kept[i].t = "Grid" THEN ROne ELSE RZero]]

\* whether the copy seeds and runs the augmentation loop at all
RunsLoop(v, sh) == v = "V010" \/ SumFirm(sh) > 0

ZeroUnits == [t \in Techs |-> 0]

\* units[t] = Math.max(0, Math.ceil(targetMW / Math.max(1e-6, u))) for each normShares entry
RECURSIVE SeedFrom(_, _, _, _)
SeedFrom(norm, reqMW, i, u) ==
  IF i > Len(norm) THEN u
  ELSE LET t == norm[i].t
           size == RMax(R(1, 1000000), MIX_LIBRARY[t].unitMW)
           targetMW == RMul(norm[i].f, reqMW)
           n == RCeil(RDiv(targetMW, size))
       IN  SeedFrom(norm, reqMW, i + 1, [u EXCEPT ![t] = IF n < 0 THEN 0 ELSE n])
Seed(norm, reqMW) == SeedFrom(norm, reqMW, 1, ZeroUnits)

\* the score without its size term: score = shortfall
ScoreShortfallOnly(e, reqMW, u) ==
  LET size == MIX_LIBRARY[e.t].unitMW
      dispatchTarget == RMul(e.f, reqMW)
      currentDispatched == RMul(RInt(u[e.t]), size)
      shortfall == RMax(RZero, RSub(dispatchTarget, currentDispatched))
  IN  shortfall

\* score = shortfall - 0.1 * size
Score(e, reqMW, u) ==
  LET size == MIX_LIBRARY[e.t].unitMW
      dispatchTarget == RMul(e.f, reqMW)
      currentDispatched == RMul(RInt(u[e.t]), size)
      shortfall == RMax(RZero, RSub(dispatchTarget, currentDispatched))
  IN  RSub(shortfall, RMul(R(1, 10), size))

\* the forEach that keeps the first entry with the strictly highest score
RECURSIVE BestFrom(_, _, _, _, _)
BestFrom(norm, reqMW, u, i, best) ==
  IF i > Len(norm) THEN best.t
  ELSE LET sc == Score(norm[i], reqMW, u)
       IN  IF best.none \/ RGT(sc, best.score)
           THEN BestFrom(norm, reqMW, u, i + 1, [none |-> FALSE, t |-> norm[i].t, score |-> sc])
           ELSE BestFrom(norm, reqMW, u, i + 1, best)
BestT(norm, reqMW, u) ==
  BestFrom(norm, reqMW, u, 1,
           [none |-> TRUE, t |-> IF Len(norm) > 0 THEN norm[1].t ELSE "Grid", score |-> RZero])

MAX == 500

\* the pass of the loop with the increment of units[bestT] left out
WhileStepNoAdd(v, reqMW, kLoss, norm, st) ==
  IF ~(st.guard < MAX) THEN [st EXCEPT !.guard = @ + 1, !.exit = TRUE]
  ELSE LET res == evaluate(st.units, kLoss)
       IN  IF RGE(res.firmAfterLoss, reqMW)
           THEN [st EXCEPT !.guard = @ + 1, !.exit = TRUE,
                           !.firmAfterLoss = IF v = "V010" THEN @ ELSE res.firmAfterLoss,
                           !.dropList = IF v \in {"V4", "Map"} THEN res.dropList ELSE @]
           ELSE [st EXCEPT !.guard = @ + 1]

\* one pass of  while (guard++ < MAX) { ... }  over the loop's local state
\* st = [units, guard, firmAfterLoss, dropList, exit]
WhileStep(v, reqMW, kLoss, norm, st) ==
  IF ~(st.guard < MAX) THEN [st EXCEPT !.guard = @ + 1, !.exit = TRUE]
  ELSE LET res == evaluate(st.units, kLoss)
       IN  IF RGE(res.firmAfterLoss, reqMW)
           THEN [st EXCEPT !.guard = @ + 1, !.exit = TRUE,
                           !.firmAfterLoss = IF v = "V010" THEN @ ELSE res.firmAfterLoss,
                           !.dropList = IF v \in {"V4", "Map"} THEN res.dropList ELSE @]
           ELSE [st EXCEPT !.guard = @ + 1,
                           !.units = [@ EXCEPT ![BestT(norm, reqMW, st.units)] = @ + 1]]

\* the local state when the loop is entered (or skipped: sumFirm = 0 in the strict copies)
LoopStart(v, sh, reqMW) ==
  IF RunsLoop(v, sh)
  THEN [units |-> Seed(normShares(v, sh), reqMW), guard |-> 0, firmAfterLoss |-> RZero,
        dropList |-> <<>>, exit |-> FALSE]
  ELSE [units |-> ZeroUnits, guard |-> 0, firmAfterLoss |-> RZero, dropList |-> <<>>, exit |-> TRUE]

RECURSIVE While(_, _, _, _, _)
While(v, reqMW, kLoss, norm, st) ==
  IF st.exit THEN st ELSE While(v, reqMW, kLoss, norm, WhileStep(v, reqMW, kLoss, norm, st))

(* --------------------- accreditation and dispatch ---------------------- *)
\* bessCredit = Math.min(100, Math.max(0, elcc.BESS)) * Math.min(1, Math.max(0, bessHours / 4))
bessCredit(el, hours) ==
  RMul(RMin(RInt(100), RMax(RZero, RInt(el.BESS))), RMin(ROne, RMax(RZero, RDiv(hours, RInt(4)))))

\* accredited; the V0.10 copy has no enable flag
Accredited(v, pvMW, windMW, bessMW, el, hours, enabled) ==
  IF v # "V010" /\ ~enabled THEN RZero
  ELSE RAdd(RAdd(RMul(pvMW, RDiv(RMax(RZero, RInt(el.PV)), RInt(100))),
                 RMul(windMW, RDiv(RMax(RZero, RInt(el.Wind)), RInt(100)))),
            RMul(bessMW, RDiv(bessCredit(el, hours), RInt(100))))

RECURSIVE SumField(_, _)
SumField(rows, f) == IF rows = <<>> THEN RZero ELSE RAdd(Head(rows)[f], SumField(Tail(rows), f))

\* const dispatchTotal = Math.min(reqMW, totalFirmInstalled); the V0.10 share copy and the
\* Js manual copy spread reqMW itself over the rows
DispatchTotal(v, mode, reqMW, totalFirmInstalled) ==
  IF (v = "V010" /\ mode = "share") \/ (v = "Js" /\ mode = "manual") THEN reqMW
  ELSE RMin(reqMW, totalFirmInstalled)

\* dispatched: totalFirmInstalled > 0 ? (installed / totalFirmInstalled) * dispatchTotal : 0
Dispatched(installed, totalFirmInstalled, dispatchTotal) ==
  IF RGT(totalFirmInstalled, RZero) THEN RMul(RDiv(installed, totalFirmInstalled), dispatchTotal)
  ELSE RZero

\* the MW a firm row burns fuel for: (row.installed / Math.max(1, totalFirmInstalled)) * reqMW;
\* the V0.10 share copy and the Js manual copy read the row's dispatched MW instead
FuelMW(v, mode, row, totalFirmInstalled, req) ==
  IF v = "V010" \/ (v = "Js" /\ mode = "manual") THEN row.dispatched
  ELSE RMul(RDiv(row.installed, RMax(ROne, totalFirmInstalled)), req)

\* gas_MSCF_per_h += (mmbtu_h * 1_000_000) / BTU_PER_SCF / 1000: every term carries the same
\* factor, so the exact sum is kept as the sum of the mmbtu_h terms times that factor
GasPerMMBtu == R(1000000, BTU_PER_SCF * 1000)
Gas(mmbtu) == [mmbtu |-> mmbtu, times |-> GasPerMMBtu]

\* the forEach over the firm rows that adds up fuel, gas and generation water: the three
\* totals a result carries, as a function of its firm rows and its reqMW
RECURSIVE FuelWater(_, _, _, _, _)
FuelWater(v, mode, rows, totalFirmInstalled, req) ==
  IF rows = <<>> THEN [fuel_MMBtu_per_h |-> RZero, gas_MSCF_per_h |-> Gas(RZero), genWater_gpm |-> RZero]
  ELSE LET rest == FuelWater(v, mode, Tail(rows), totalFirmInstalled, req)
           lib == MIX_LIBRARY[Head(rows).name]
           mw == FuelMW(v, mode, Head(rows), totalFirmInstalled, req)
           \* (mw * 1000 * lib.heatRate) / 1_000_000, the exact product taken factor-first
           mmbtu_h == RMul(mw, R(1000 * lib.heatRate, 1000000))
       IN  IF lib.fuel # "None" /\ lib.heatRate > 0
           THEN [fuel_MMBtu_per_h |-> RAdd(rest.fuel_MMBtu_per_h, mmbtu_h),
                 gas_MSCF_per_h |-> Gas(RAdd(rest.gas_MSCF_per_h.mmbtu, mmbtu_h)),
                 genWater_gpm |-> RAdd(rest.genWater_gpm,
                                       RMul(mw, galPerHourToGpm(RInt(lib.water_gal_per_MWh))))]
           ELSE rest

\* the verdict from firm capacity alone, leaving the accredited non-firm MW out
MeetsFirmOnly(fal, accredited, req) == RGE(fal, req)

\* const meets = firmAfterLoss + accredited >= reqMW
Meets(fal, accredited, req) == RGE(RAdd(fal, accredited), req)

(* ------------------------------ shareCalc ------------------------------ *)
\* everything shareCalc does after its augmentation loop, from the loop's final local state
ShareTail(v, in, c, sh, el, hours, enabled, st) ==
  LET reqMW == ReqMW(v, in, c)
      kLoss == kFromReliability(in.reliability)
      \* if (firmAfterLoss === 0) re-evaluate; the V0.10 copy always evaluates at the end
      post == IF RunsLoop(v, sh) /\ (v = "V010" \/ st.firmAfterLoss = RZero)
              THEN evaluate(st.units, kLoss)
              ELSE [installed |-> RZero, firmAfterLoss |-> st.firmAfterLoss, dropList |-> st.dropList]
      fal == post.firmAfterLoss
      drop == IF RunsLoop(v, sh) /\ st.firmAfterLoss = RZero THEN post.dropList ELSE st.dropList
      pvMW == RMul(RDiv(RInt(Pct(sh, "PV")), RInt(100)), reqMW)
      windMW == RMul(RDiv(RInt(Pct(sh, "Wind")), RInt(100)), reqMW)
      bessMW == RMul(RDiv(RInt(Pct(sh, "BESS")), RInt(100)), reqMW)
      pvUnits == RCeil(RDiv(pvMW, MIX_LIBRARY["PV"].unitMW))
      windUnits == RCeil(RDiv(windMW, MIX_LIBRARY["Wind"].unitMW))
      bessUnits == RCeil(RDiv(bessMW, MIX_LIBRARY["BESS"].unitMW))
      accredited == Accredited(v, pvMW, windMW, bessMW, el, hours, enabled)
      raw == [i \in DOMAIN firmList |->
               [t |-> firmList[i], mw |-> RMul(RInt(st.units[firmList[i]]), MIX_LIBRARY[firmList[i]].unitMW)]]
      compFirmRaw == SelectSeq(raw, LAMBDA x : RGT(x.mw, RZero))
      totalFirmInstalled == SumField(compFirmRaw, "mw")
      dispatchTotal == DispatchTotal(v, "share", reqMW, totalFirmInstalled)
      compFirm == [i \in DOMAIN compFirmRaw |->
                    [name |-> compFirmRaw[i].t, installed |-> compFirmRaw[i].mw,
                     dispatched |-> Dispatched(compFirmRaw[i].mw, totalFirmInstalled, dispatchTotal),
                     units |-> st.units[compFirmRaw[i].t], isFirm |-> TRUE]]
      compNonFirm ==
        << [name |-> "PV (non-firm)", installed |-> pvMW, dispatched |-> RZero, units |-> pvUnits, isFirm |-> FALSE],
           [name |-> "Wind (non-firm)", installed |-> windMW, dispatched |-> RZero, units |-> windUnits, isFirm |-> FALSE],
           [name |-> "BESS (non-firm)", installed |-> bessMW, dispatched |-> RZero, units |-> bessUnits, isFirm |-> FALSE] >>
      meets == Meets(fal, accredited, reqMW)
  IN  [reqMW |-> reqMW, kLoss |-> kLoss, units |-> st.units, comp |-> compFirm \o compNonFirm,
       pvMW |-> pvMW, windMW |-> windMW, bessMW |-> bessMW, pvUnits |-> pvUnits, windUnits |-> windUnits,
       accredited |-> accredited, firmAfterLoss |-> fal, meets |-> meets]
      @@ (IF v = "V010" THEN <<>> ELSE [sumFirm |-> SumFirm(sh)])
      @@ (IF v \in {"V4", "Map"} THEN [dropList |-> drop] ELSE <<>>)

\* the local state with which the augmentation loop is left; the one-element sets bind
\* reqMW, normShares and the seeded state as values, each computed once
LoopEnd(v, in, c, sh) ==
  CHOOSE st \in { While(v, r, kFromReliability(in.reliability), norm, st0) :
                    r \in {ReqMW(v, in, c)}, norm \in {normShares(v, sh)},
                    st0 \in {LoopStart(v, sh, ReqMW(v, in, c))} } : TRUE

\* the useMemo callback of shareCalc as one function of what it reads
ShareCalc(v, in, c, sh, el, hours, enabled) ==
  IF in.mixMode # "share" THEN NULL
  ELSE CHOOSE r \in { ShareTail(v, in, c, sh, el, hours, enabled, st) : st \in {LoopEnd(v, in, c, sh)} } : TRUE

(* ---------------------------- manualMixCalc --------------------------- *)
\* mix.find((r) => r.tech === t): the first row of that technology, if any
RowBy(m, t) ==
  LET hits == SelectSeq(m, LAMBDA r : r.tech = t)
  IN  IF hits = <<>> THEN NULL ELSE Head(hits)

\* (rowBy(t)?.units ?? 0) * (rowBy(t)?.unitMW ?? 0)
RowMW(m, t) == IF RowBy(m, t) = NULL THEN RZero ELSE RMul(RowBy(m, t).units, RowBy(m, t).unitMW)
RowUnits(m, t) == IF RowBy(m, t) = NULL THEN RZero ELSE RowBy(m, t).units

\* for (let i = 0; i < Math.floor(r.units); i++) unitList.push({ tech: r.tech, size: r.unitMW })
RECURSIVE UnitList(_)
UnitList(rows) ==
  IF rows = <<>> THEN <<>>
  ELSE Repeat([tech |-> Head(rows).tech, size |-> Head(rows).unitMW],
              IF RFloor(Head(rows).units) < 0 THEN 0 ELSE RFloor(Head(rows).units))
       \o UnitList(Tail(rows))

RECURSIVE RowsInstalled(_)
RowsInstalled(rows) ==
  IF rows = <<>> THEN RZero
  ELSE RAdd(RMul(Head(rows).units, Head(rows).unitMW), RowsInstalled(Tail(rows)))

\* the useMemo callback of manualMixCalc as one function of what it reads
\* (the V0.10 copy has no manual calculation)
ManualMixCalc(v, in, c, m, el, hours, enabled) ==
  IF in.mixMode # "manual" \/ v = "V010" THEN NULL
  ELSE
  LET reqMW == ReqMW(v, in, c)
      kLoss == kFromReliability(in.reliability)
      firmRows == SelectSeq(m, LAMBDA r : r.isFirm /\ RGT(r.units, RZero))
      totalInstalledFirm == RowsInstalled(firmRows)
      res == DropAndRest(totalInstalledFirm, UnitList(firmRows), kLoss)
      pvMW == RowMW(m, "PV")
      windMW == RowMW(m, "Wind")
      bessMW == RowMW(m, "BESS")
      accredited == Accredited(v, pvMW, windMW, bessMW, el, hours, enabled)
      meets == Meets(res.firmAfterLoss, accredited, reqMW)
      totalFirmInstalled == RowsInstalled(firmRows)
      dispatchTotal == DispatchTotal(v, "manual", reqMW, totalFirmInstalled)
      compFirmWithDispatch ==
        [i \in DOMAIN firmRows |->
          [name |-> firmRows[i].tech, installed |-> RMul(firmRows[i].units, firmRows[i].unitMW),
           dispatched |-> Dispatched(RMul(firmRows[i].units, firmRows[i].unitMW), totalFirmInstalled, dispatchTotal),
           units |-> firmRows[i].units, isFirm |-> TRUE]]
      compNonFirm ==
        << [name |-> "PV (non-firm)", installed |-> pvMW, dispatched |-> RZero, units |-> RowUnits(m, "PV"), isFirm |-> FALSE],
           [name |-> "Wind (non-firm)", installed |-> windMW, dispatched |-> RZero, units |-> RowUnits(m, "Wind"), isFirm |-> FALSE],
           [name |-> "BESS (non-firm)", installed |-> bessMW, dispatched |-> RZero, units |-> RowUnits(m, "BESS"), isFirm |-> FALSE] >>
      \* the Js copy reports one row per mix row; a firm row with units <= 0 has no dispatch entry
      compJs ==
        [i \in DOMAIN m |->
          [name |-> m[i].tech, installed |-> RMul(m[i].units, m[i].unitMW),
           dispatched |-> IF m[i].isFirm /\ RGT(m[i].units, RZero)
                          THEN Dispatched(RMul(m[i].units, m[i].unitMW), totalFirmInstalled, dispatchTotal)
                          ELSE RZero,
           units |-> m[i].units, isFirm |-> m[i].isFirm]]
  IN  [reqMW |-> reqMW, kLoss |-> kLoss, totalInstalledFirm |-> totalInstalledFirm,
       firmAfterLoss |-> res.firmAfterLoss, accredited |-> accredited, meets |-> meets,
       comp |-> IF v = "Js" THEN compJs ELSE compFirmWithDispatch \o compNonFirm,
       pvMW |-> pvMW, windMW |-> windMW, bessMW |-> bessMW]
      @@ (IF v = "Js" THEN <<>> ELSE [dropList |-> res.dropList])

(* ------------------- the sizing call, step by step --------------------- *)
\* bounds of the inputs the sizing call is explored on
MaxFirmTechs == 2
MaxUnits == 3

SharePcts == {50, 100}
TargetSet == {RInt(0), RInt(100)}
ParcelSet == {RInt(500), RInt(100)}

FirmShareVectors ==
  {sh \in [FirmTechs -> {0} \cup SharePcts] : Cardinality({t \in FirmTechs : sh[t] > 0}) <= MaxFirmTechs}

NonFirmShareVectors ==
  { [PV |-> 0, Wind |-> 0, BESS |-> 0], [PV |-> 50, Wind |-> 0, BESS |-> 100] }

ShareVectors == {f @@ n : f \in FirmShareVectors, n \in NonFirmShareVectors}

ZeroShares == [t \in Techs |-> 0]

\* the mix the component starts with
DefaultMix == << LibRow(1, "CCGT (5000F 1x1)", RInt(1)), LibRow(2, "PV", RInt(0)), LibRow(3, "Wind", RInt(0)) >>

Mixes ==
  { << LibRow(1, a, RInt(na)), LibRow(2, b, RInt(nb)), LibRow(3, c, RInt(nc)) >> :
      a \in {"CCGT (5000F 1x1)", "Grid"}, na \in 0..MaxUnits,
      b \in {"SCGT"}, nb \in 0..(MaxUnits - 1),
      c \in {"PV", "BESS"}, nc \in {0, 1} }

SizingInputs ==
  { [DEFAULT_INPUTS EXCEPT !.targetItMw = tg, !.parcelAcres = pa, !.reliability = r,
                           !.genSizeToFacility = g, !.mixMode = mm] :
      tg \in TargetSet, pa \in ParcelSet, r \in {"99.9", "99.99", "99.999"},
      g \in BOOLEAN, mm \in {"share", "manual"} }

\* what useMemo keeps of the dependency lists before the first render
\* (phasesDep: the inputs.phases the phase-sync effect last ran for, 0 before it ever ran;
\* coolingDep: the inputs.cooling the WUE effect last ran for, "none" before it ever ran)
NoMemo == [shareDeps |-> <<>>, manualDeps |-> <<>>, phasesDep |-> 0, coolingDep |-> "none"]

TypeOK ==
  /\ variant \in Variants
  /\ pc \in {"render", "loop", "tail", "done", "dirty", "mounted"}
  /\ replaced \subseteq {"inputs", "shares", "mix", "elcc"}
  /\ guard \in 0..(MAX + 1)
  /\ \A t \in Techs : units[t] \in Nat

\* a render of one copy of the component on some inputs: calc is already computed
\* (it only reads inputs), the two sizing callbacks are about to run
Init ==
  /\ variant \in Variants
  /\ inputs \in SizingInputs
  /\ (variant # "Map" => inputs.parcelAcres = RInt(500))
  /\ (inputs.targetItMw = RZero => inputs.genSizeToFacility)
  /\ shares \in ShareVectors
  /\ mix \in Mixes \cup {DefaultMix}
  /\ IF inputs.mixMode = "share" THEN mix = DefaultMix ELSE shares = ZeroShares /\ mix # DefaultMix
  /\ elcc = DEFAULT_ELCC
  /\ bessHours = RInt(4)
  /\ elccEnabled \in BOOLEAN
  /\ (~elccEnabled => (shares["BESS"] > 0 \/ RGT(RowMW(mix, "BESS"), RZero)))
  /\ calc = Calc(variant, inputs)
  /\ shareCalc = NULL
  /\ manualMixCalc = NULL
  /\ pc = "render"
  /\ units = ZeroUnits
  /\ guard = 0
  /\ firmAfterLoss = RZero
  /\ dropList = <<>>
  /\ memo = NoMemo
  /\ MapInit
  /\ saved = NULL
  /\ replaced = {}

reqMW == ReqMW(variant, inputs, calc)
kLoss == kFromReliability(inputs.reliability)

\* mixMode = "manual": manualMixCalc computes, shareCalc returns null
RenderManual ==
  /\ pc = "render"
  /\ inputs.mixMode # "share"
  /\ manualMixCalc' = ManualMixCalc(variant, inputs, calc, mix, elcc, bessHours, elccEnabled)
  /\ shareCalc' = NULL
  /\ pc' = "done"
  /\ UNCHANGED mapVars
  /\ UNCHANGED saved
  /\ UNCHANGED <<memo, replaced, variant, inputs, shares, mix, elcc, bessHours, elccEnabled, calc,
                 units, guard, firmAfterLoss, dropList>>

\* the start of shareCalc without its fresh locals: the loop goes on from the unit counts
\* the call before left behind
ShareBeginCarried ==
  /\ pc = "render"
  /\ inputs.mixMode = "share"
  /\ manualMixCalc' = NULL
  /\ pc' = IF RunsLoop(variant, shares) THEN "loop" ELSE "tail"
  /\ guard' = 0
  /\ UNCHANGED mapVars
  /\ UNCHANGED saved
  /\ UNCHANGED <<memo, replaced, variant, inputs, shares, mix, elcc, bessHours, elccEnabled, calc, shareCalc,
                 units, firmAfterLoss, dropList>>

\* mixMode = "share": manualMixCalc returns null; shareCalc runs up to its while loop
ShareBegin ==
  /\ pc = "render"
  /\ inputs.mixMode = "share"
  /\ manualMixCalc' = NULL
  /\ LET st == LoopStart(variant, shares, reqMW)
     IN  /\ units' = st.units
         /\ guard' = st.guard
         /\ firmAfterLoss' = st.firmAfterLoss
         /\ dropList' = st.dropList
         /\ pc' = IF st.exit THEN "tail" ELSE "loop"
  /\ UNCHANGED mapVars
  /\ UNCHANGED saved
  /\ UNCHANGED <<memo, replaced, variant, inputs, shares, mix, elcc, bessHours, elccEnabled, calc, shareCalc>>

\* the loop as an if: one pass of the body, then on to the rest of shareCalc
LoopStepOnce ==
  /\ pc = "loop"
  /\ LET st == WhileStep(variant, reqMW, kLoss, normShares(variant, shares),
                         [units |-> units, guard |-> guard, firmAfterLoss |-> firmAfterLoss,
                          dropList |-> dropList, exit |-> FALSE])
     IN  /\ units' = st.units
         /\ guard' = st.guard
         /\ firmAfterLoss' = st.firmAfterLoss
         /\ dropList' = st.dropList
         /\ pc' = "tail"
  /\ UNCHANGED mapVars
  /\ UNCHANGED saved
  /\ UNCHANGED <<memo, replaced, variant, inputs, shares, mix, elcc, bessHours, elccEnabled, calc,
                 shareCalc, manualMixCalc>>

\* one test of the loop condition and, when it holds, one pass of the body
LoopStep ==
  /\ pc = "loop"
  /\ LET st == WhileStep(variant, reqMW, kLoss, normShares(variant, shares),
                         [units |-> units, guard |-> guard, firmAfterLoss |-> firmAfterLoss,
                          dropList |-> dropList, exit |-> FALSE])
     IN  /\ units' = st.units
         /\ guard' = st.guard
         /\ firmAfterLoss' = st.firmAfterLoss
         /\ dropList' = st.dropList
         /\ pc' = IF st.exit THEN "tail" ELSE "loop"
  /\ UNCHANGED mapVars
  /\ UNCHANGED saved
  /\ UNCHANGED <<memo, replaced, variant, inputs, shares, mix, elcc, bessHours, elccEnabled, calc,
                 shareCalc, manualMixCalc>>

\* the rest of shareCalc, up to its return
ShareFinish ==
  /\ pc = "tail"
  /\ shareCalc' = ShareTail(variant, inputs, calc, shares, elcc, bessHours, elccEnabled,
                            [units |-> units, guard |-> guard, firmAfterLoss |-> firmAfterLoss,
                             dropList |-> dropList, exit |-> TRUE])
  /\ pc' = "done"
  /\ UNCHANGED mapVars
  /\ UNCHANGED saved
  /\ UNCHANGED <<memo, replaced, variant, inputs, shares, mix, elcc, bessHours, elccEnabled, calc,
                 manualMixCalc, units, guard, firmAfterLoss, dropList>>

Next == RenderManual \/ ShareBegin \/ LoopStep \/ ShareFinish

Spec == Init /\ [][Next]_vars

(* ---------- the sizing call on whatever state it is handed ------------- *)
\* The two sizing callbacks read shares, elcc, bessHours, elccEnabled and mix as they
\* are; this specification runs the same call on values over the whole domain of those
\* reads: ELCC and share percentages below 0 and above 100, storage durations from 0
\* upwards, and the unit counts the manual rows can hold (whole counts in the copies
\* whose field stores Math.max(0, Math.floor(n)); any number, fractional or negative,
\* in the Js copy, whose field stores toNumber(value, 0)).
CoreElcc ==
  { DEFAULT_ELCC, [PV |-> 150, Wind |-> 20, BESS |-> 150], [PV |-> -10, Wind |-> 20, BESS |-> 100] }

CoreHours == {RInt(0), RInt(2), RInt(4), RInt(8)}

CoreFirmShares ==
  { [t \in FirmTechs |-> 0],
    [t \in FirmTechs |-> IF t = "Grid" THEN 100 ELSE 0],
    [t \in FirmTechs |-> IF t \in {"SCGT", "CCGT (5000F 1x1)"} THEN 50 ELSE 0] }

CoreNonFirmShares ==
  { [PV |-> 0, Wind |-> 0, BESS |-> 0], [PV |-> 50, Wind |-> 0, BESS |-> 100],
    [PV |-> 150, Wind |-> 50, BESS |-> 0] }

CoreShares == {f @@ n : f \in CoreFirmShares, n \in CoreNonFirmShares}

\* unit counts of a manual row
CoreFirmUnits == {RInt(0), RInt(1), R(3, 2), RInt(2)}
CoreNonFirmUnits == {RInt(-1), RInt(0), RInt(1)}

CoreMixes ==
  { << LibRow(1, "Grid", na), LibRow(2, "SCGT", nb), LibRow(3, c, nc) >> :
      na \in {RInt(0), RInt(1), RInt(2)}, nb \in CoreFirmUnits,
      c \in {"PV", "BESS"}, nc \in CoreNonFirmUnits }

\* the unit counts a copy's manual rows can hold
UnitsStorable(v, m) ==
  v = "Js" \/ \A i \in DOMAIN m : m[i].units[2] = 1 /\ m[i].units[1] >= 0

InitCore ==
  /\ variant \in Variants
  /\ inputs \in { [DEFAULT_INPUTS EXCEPT !.reliability = r, !.genSizeToFacility = FALSE, !.mixMode = mm] :
                     r \in {"99.9", "99.99"}, mm \in {"share", "manual"} }
  /\ shares \in CoreShares \cup {ZeroShares}
  /\ mix \in CoreMixes \cup {DefaultMix}
  /\ IF inputs.mixMode = "share" THEN mix = DefaultMix
     ELSE shares = ZeroShares /\ mix # DefaultMix /\ UnitsStorable(variant, mix) /\ variant # "V010"
  /\ elcc \in CoreElcc
  /\ bessHours \in CoreHours
  /\ elccEnabled \in BOOLEAN
  /\ calc = Calc(variant, inputs)
  /\ shareCalc = NULL
  /\ manualMixCalc = NULL
  /\ pc = "render"
  /\ units = ZeroUnits
  /\ guard = 0
  /\ firmAfterLoss = RZero
  /\ dropList = <<>>
  /\ memo = NoMemo
  /\ MapInit
  /\ saved = NULL
  /\ replaced = {}

SpecCore == InitCore /\ [][Next]_vars

(* ------------------- the land footprint of generation ------------------ *)
\* function baseName(n) { return String(n || "").replace(/ \(non-firm\)/g, ""); }
baseName(n) ==
  CASE n = "PV (non-firm)" -> "PV"
    [] n = "Wind (non-firm)" -> "Wind"
    [] n = "BESS (non-firm)" -> "BESS"
    [] OTHER -> n

\* d.units || 0 as a number: the share result counts units in integers
UnitsOf(d, mode) == IF mode = "share" THEN RInt(d.units) ELSE d.units

\* the storage branch with its installed > 0 test left out
BessAcresUnguarded(installed, cfg, hours) ==
  RAdd(RMul(RMul(installed, cfg.per_MW_hr), RMax(ROne, hours)), cfg.site_overhead_acres)

\* if ((d.installed || 0) > 0) acres = installed * slope * Math.max(1, bessHours) + (cfg.site_overhead_acres || 0)
BessAcres(installed, cfg, hours) ==
  IF RGT(installed, RZero)
  THEN RAdd(RMul(RMul(installed, cfg.per_MW_hr), RMax(ROne, hours)), cfg.site_overhead_acres)
  ELSE RZero

\* let acres = 0; if (typeof cfg.per_unit_acres === "number") ... else if ... else if ...
RowAcres(d, mode, genLand, hours) ==
  LET cfg == genLand[baseName(d.name)]
  IN  IF "per_unit_acres" \in DOMAIN cfg THEN RMul(UnitsOf(d, mode), cfg.per_unit_acres)
      ELSE IF "per_MW_hr" \in DOMAIN cfg THEN BessAcres(d.installed, cfg, hours)
      ELSE IF "per_MW_acres" \in DOMAIN cfg THEN RMul(d.installed, cfg.per_MW_acres)
      ELSE RZero

\* comp.forEach(...): a row is pushed, and added to the total, if (acres > 0.0001)
RECURSIVE GenRows(_, _, _, _)
GenRows(comp, mode, genLand, hours) ==
  IF comp = <<>> THEN <<>>
  ELSE LET d == Head(comp)
           acres == RowAcres(d, mode, genLand, hours)
       IN  (IF RGT(acres, R(1, 10000))
            THEN <<[name |-> baseName(d.name), acres |-> acres, installed |-> d.installed,
                    units |-> UnitsOf(d, mode)]>>
            ELSE <<>>) \o GenRows(Tail(comp), mode, genLand, hours)

\* the useMemo callback of genFootprint (V4 and Map copies) as a function of what it reads
GenFootprint(active, mode, genLand, hours) ==
  LET rows == GenRows(IF active = NULL THEN <<>> ELSE active.comp, mode, genLand, hours)
  IN  [rows |-> rows, total |-> RSum([i \in DOMAIN rows |-> rows[i].acres])]

\* the footprint assumptions the sizing is explored on: the defaults, the SCGT field set to
\* 0.0001, the storage overhead set to 0
LandConfigs ==
  {DEFAULT_GENLAND,
   [DEFAULT_GENLAND EXCEPT !["SCGT"].per_unit_acres = R(1, 10000)],
   [DEFAULT_GENLAND EXCEPT !["BESS"].site_overhead_acres = RZero]}
LandHours == {RInt(1), RInt(4)}
LandShares ==
  {[t \in Techs |-> IF t = "Grid" THEN 100 ELSE 0],
   [t \in Techs |-> IF t \in {"SCGT", "PV", "BESS"} THEN 50 ELSE 0],
   [t \in Techs |-> IF t \in {"Recip (NG)", "Wind"} THEN 100 ELSE 0]}

\* a render of the V4 or the Map copy on some footprint assumptions
InitLand ==
  /\ variant \in {"V4", "Map"}
  /\ inputs \in { [DEFAULT_INPUTS EXCEPT !.reliability = r, !.genSizeToFacility = FALSE, !.mixMode = mm,
                                          !.genLand = g] :
                     r \in {"99.9", "99.99"}, mm \in {"share", "manual"}, g \in LandConfigs }
  /\ shares \in LandShares \cup {ZeroShares}
  /\ mix \in CoreMixes \cup {DefaultMix}
  /\ IF inputs.mixMode = "share" THEN mix = DefaultMix /\ shares # ZeroShares
     ELSE shares = ZeroShares /\ mix # DefaultMix /\ UnitsStorable(variant, mix)
  /\ elcc = DEFAULT_ELCC
  /\ bessHours \in LandHours
  /\ elccEnabled = TRUE
  /\ calc = Calc(variant, inputs)
  /\ shareCalc = NULL
  /\ manualMixCalc = NULL
  /\ pc = "render"
  /\ units = ZeroUnits
  /\ guard = 0
  /\ firmAfterLoss = RZero
  /\ dropList = <<>>
  /\ memo = NoMemo
  /\ MapInit
  /\ saved = NULL
  /\ replaced = {}

SpecLand == InitLand /\ [][Next]_vars

(* ------------- the mounted component: handlers and re-render ----------- *)
\* bounds of the values the handlers are explored on
MaxStories == 2

ParcelSetUI == {RInt(0), RInt(100)}
SqftSetUI == {RInt(1), RInt(60)}
TargetSetUI == {RInt(40), RInt(100)}
ShareTechsUI == {"Grid", "CCGT (5000F 1x1)"}
SharePctsUI == {0, 50}

\* useState(shares): the V0.10 copy starts at Grid 56 / PV 47, the other copies at all zeros
InitialShares(v) == IF v = "V010" THEN [ZeroShares EXCEPT !["Grid"] = 56, !["PV"] = 47] ELSE ZeroShares

\* useState(mix): the V0.10 copy starts with two CCGT units, the other copies with one
InitialMix(v) ==
  << LibRow(1, "CCGT (5000F 1x1)", IF v = "V010" THEN RInt(2) ELSE RInt(1)),
     LibRow(2, "PV", RInt(0)), LibRow(3, "Wind", RInt(0)) >>

\* useState(inputs): { ...DEFAULT_INPUTS, ...JSON.parse(saved) }; three of the copies share
\* one localStorage key, so a parcel area saved by one of them is loaded by the others
SavedInputs == {[DEFAULT_INPUTS EXCEPT !.parcelAcres = pa] : pa \in ParcelSetUI}

\* the primitive entries of shareCalc's dependency list; shares and (outside the V0.10
\* copy) elcc are objects, compared by identity
ShareDeps(v, in, c, el, hours, enabled) ==
  << in.mixMode, in.reliability, in.genSizeToFacility, c.effectiveTargetItMw, c.pue, c.water_gpm_dc,
     hours, IF v = "V010" THEN <<el.BESS, el.PV, el.Wind>> ELSE <<enabled>> >>

\* the primitive entries of manualMixCalc's dependency list; mix, inputs and elcc are
\* objects, compared by identity
ManualDeps(in, c, hours, enabled) ==
  << in.mixMode, c.effectiveTargetItMw, c.pue, c.water_gpm_dc, hours, enabled >>

\* the state objects whose identity is in shareCalc's dependency list
ShareObjects(v) == IF v = "V010" THEN {"shares"} ELSE {"shares", "elcc"}

\* the state objects whose identity is in manualMixCalc's dependency list
ManualObjects == {"mix", "inputs", "elcc"}

\* the component before its first render: state from useState, nothing memoised yet
InitUI ==
  /\ variant \in Variants
  /\ inputs \in SavedInputs
  /\ shares = InitialShares(variant)
  /\ mix = InitialMix(variant)
  /\ elcc = DEFAULT_ELCC
  /\ bessHours = RInt(4)
  /\ elccEnabled = TRUE
  /\ calc = NULL
  /\ shareCalc = NULL
  /\ manualMixCalc = NULL
  /\ memo = NoMemo
  /\ MapInit
  /\ saved = inputs
  /\ replaced = {"inputs", "shares", "mix", "elcc"}
  /\ pc = "dirty"
  /\ units = ZeroUnits
  /\ guard = 0
  /\ firmAfterLoss = RZero
  /\ dropList = <<>>

\* one render: useMemo re-runs a callback only when an entry of its dependency list
\* changed since the last render, and otherwise hands back the value it kept
Rerender ==
  /\ pc = "dirty"
  /\ calc' = IF "inputs" \in replaced THEN Calc(variant, inputs) ELSE calc
  /\ memo' = [memo EXCEPT !.shareDeps = ShareDeps(variant, inputs, calc', elcc, bessHours, elccEnabled),
                          !.manualDeps = ManualDeps(inputs, calc', bessHours, elccEnabled)]
  /\ shareCalc' =
       IF replaced \cap ShareObjects(variant) # {} \/ memo'.shareDeps # memo.shareDeps
       THEN ShareCalc(variant, inputs, calc', shares, elcc, bessHours, elccEnabled)
       ELSE shareCalc
  /\ manualMixCalc' =
       IF replaced \cap ManualObjects # {} \/ memo'.manualDeps # memo.manualDeps
       THEN ManualMixCalc(variant, inputs, calc', mix, elcc, bessHours, elccEnabled)
       ELSE manualMixCalc
  /\ replaced' = {}
  /\ pc' = "mounted"
  /\ UNCHANGED mapVars
  /\ UNCHANGED saved
  /\ UNCHANGED <<variant, inputs, shares, mix, elcc, bessHours, elccEnabled, units, guard, firmAfterLoss, dropList>>

\* setInputs(s => ({ ...s, ... })): a new inputs object, and a render is due
setInputs(in2) ==
  /\ pc = "mounted"
  /\ inputs' = in2
  /\ replaced' = {"inputs"}
  /\ pc' = "dirty"
  /\ UNCHANGED mapVars
  /\ UNCHANGED saved
  /\ UNCHANGED <<variant, shares, mix, elcc, bessHours, elccEnabled, calc, shareCalc, manualMixCalc,
                 memo, units, guard, firmAfterLoss, dropList>>

\* NumberField parcelAcres: parcelAcres: n; the V0.10 copy has no such field
SetParcelAcres ==
  /\ variant # "V010"
  /\ \E n \in ParcelSetUI : setInputs([inputs EXCEPT !.parcelAcres = n])

\* NumberField stories: stories: Math.max(1, Math.floor(n))
SetStories ==
  \E n \in 0..MaxStories : setInputs([inputs EXCEPT !.stories = RInt(IF n < 1 THEN 1 ELSE n)])

\* NumberField sqftPerRack: sqftPerRack: n (the Js copy stores Math.max(1, n))
SetSqftPerRack ==
  \E n \in SqftSetUI : setInputs([inputs EXCEPT !.sqftPerRack = IF variant = "Js" THEN RMax(ROne, n) ELSE n])

\* NumberField targetItMw: targetItMw: n
SetTargetItMw ==
  \E n \in TargetSetUI : setInputs([inputs EXCEPT !.targetItMw = n])

\* reliability selector: reliability: r
SetReliability ==
  \E r \in {"99.9", "99.99", "99.999"} : setInputs([inputs EXCEPT !.reliability = r])

\* mix mode selector: mixMode: v
SetMixMode ==
  \E m \in {"share", "manual"} : setInputs([inputs EXCEPT !.mixMode = m])

\* share slider: setShares(s => ({ ...s, [t]: v })): a new shares object, and a render is due
SetShare ==
  /\ pc = "mounted"
  /\ \E t \in ShareTechsUI, v \in SharePctsUI : shares' = [shares EXCEPT ![t] = v]
  /\ replaced' = {"shares"}
  /\ pc' = "dirty"
  /\ UNCHANGED mapVars
  /\ UNCHANGED saved
  /\ UNCHANGED <<variant, inputs, mix, elcc, bessHours, elccEnabled, calc, shareCalc, manualMixCalc,
                 memo, units, guard, firmAfterLoss, dropList>>

NextUI ==
  \/ Rerender
  \/ SetParcelAcres
  \/ SetStories
  \/ SetSqftPerRack
  \/ SetTargetItMw
  \/ SetReliability
  \/ SetMixMode
  \/ SetShare

SpecUI == InitUI /\ [][NextUI]_vars

(* ------------- the mounted component: target, mode and phases --------- *)
\* bounds of the values the phase handlers are explored on
MaxPhases == 3

PhaseValuesUI == {RInt(0), RInt(60)}

\* the phase-sync effect has run for the inputs.phases of the last render
Settled == pc = "mounted" /\ memo.phasesDep = inputs.phases

\* while (arr.length < phases) arr.push(x), on arr = s.phaseItMw.slice(0, phases)
PadTo(arr, n, x) == [i \in 1..n |-> IF i <= Len(arr) THEN arr[i] ELSE x]

\* useEffect(..., [inputs.phases]): after the first render and after every render in which
\* inputs.phases changed, the per-phase array is cut or padded to phases entries
PhaseEffect ==
  /\ pc = "mounted"
  /\ memo.phasesDep # inputs.phases
  /\ LET phases == IF inputs.phases < 1 THEN 1 ELSE inputs.phases
         x == RDiv(IF inputs.mode = "target" THEN inputs.targetItMw ELSE RMax(RZero, inputs.targetItMw),
                   RInt(phases))
     IN  inputs' = [inputs EXCEPT !.phases = phases,
                                  !.phaseItMw = PadTo(Slice(inputs.phaseItMw, phases), phases, x)]
  /\ memo' = [memo EXCEPT !.phasesDep = inputs.phases]
  /\ replaced' = {"inputs"}
  /\ pc' = "dirty"
  /\ UNCHANGED mapVars
  /\ UNCHANGED saved
  /\ UNCHANGED <<variant, shares, mix, elcc, bessHours, elccEnabled, calc, shareCalc, manualMixCalc,
                 units, guard, firmAfterLoss, dropList>>

\* Switch mode: mode: c ? "target" : "land"
SetMode ==
  /\ Settled
  /\ \E m \in {"target", "land"} : setInputs([inputs EXCEPT !.mode = m])

\* Switch equalize phases: equalizePhases: c
SetEqualizePhases ==
  /\ Settled
  /\ \E c \in BOOLEAN : setInputs([inputs EXCEPT !.equalizePhases = c])

\* phases field: phases: Math.max(1, ...)
SetPhases ==
  /\ Settled
  /\ \E n \in 0..MaxPhases : setInputs([inputs EXCEPT !.phases = IF n < 1 THEN 1 ELSE n])

\* per-phase field i (shown when phases are not equalized): arr[i] = Math.max(0, n)
\* (the Js copy stores the number as typed)
SetPhaseItMw ==
  /\ Settled
  /\ ~inputs.equalizePhases
  /\ variant # "V010"
  /\ \E i \in 1..inputs.phases, n \in PhaseValuesUI :
        setInputs([inputs EXCEPT !.phaseItMw = [@ EXCEPT ![i] = IF variant = "Js" THEN n ELSE RMax(RZero, n)]])

\* the target field, once the effects of the last render have run
SetTargetPhased == Settled /\ SetTargetItMw

InitPhase ==
  /\ InitUI
  /\ inputs.parcelAcres = RInt(100)

NextPhase ==
  \/ Rerender
  \/ PhaseEffect
  \/ SetMode
  \/ SetEqualizePhases
  \/ SetPhases
  \/ SetPhaseItMw
  \/ SetTargetPhased

SpecPhase == InitPhase /\ [][NextPhase]_vars

(* ---------- the mounted component: cooling, WUE and persistence -------- *)
\* saved is the item LS_KEY of localStorage: NULL while there is none, else the inputs
\* object whose JSON text it holds (every field of inputs is a finite number, a string,
\* a boolean or an array or object of those, which JSON.parse(JSON.stringify(x)) gives back)

\* saved ? { ...DEFAULT_INPUTS, ...JSON.parse(saved) } : DEFAULT_INPUTS
LoadInputs(item) ==
  IF item = NULL THEN DEFAULT_INPUTS
  ELSE [f \in DOMAIN DEFAULT_INPUTS \cup DOMAIN item |->
          IF f \in DOMAIN item THEN item[f] ELSE DEFAULT_INPUTS[f]]

\* every effect of the last render has run
WaterSettled == Settled /\ memo.coolingDep = inputs.cooling /\ saved = inputs

\* the component before its first render, nothing in localStorage
InitWater ==
  /\ variant \in Variants
  /\ saved = NULL
  /\ inputs = LoadInputs(saved)
  /\ shares = InitialShares(variant)
  /\ mix = InitialMix(variant)
  /\ elcc = DEFAULT_ELCC
  /\ bessHours = RInt(4)
  /\ elccEnabled = TRUE
  /\ calc = NULL
  /\ shareCalc = NULL
  /\ manualMixCalc = NULL
  /\ memo = NoMemo
  /\ MapInit
  /\ replaced = {"inputs", "shares", "mix", "elcc"}
  /\ pc = "dirty"
  /\ units = ZeroUnits
  /\ guard = 0
  /\ firmAfterLoss = RZero
  /\ dropList = <<>>

\* useEffect(() => setInputs(s => ({ ...s, wue_L_per_kWh: s.cooling === "Liquid" ? 0.15 : 0.3 })),
\* [inputs.cooling]): after the first render and after every render in which inputs.cooling changed
CoolingEffect ==
  /\ pc = "mounted"
  /\ memo.coolingDep # inputs.cooling
  /\ inputs' = [inputs EXCEPT !.wue_L_per_kWh = IF inputs.cooling = "Liquid" THEN R(15, 100) ELSE R(3, 10)]
  /\ memo' = [memo EXCEPT !.coolingDep = inputs.cooling]
  /\ replaced' = {"inputs"}
  /\ pc' = "dirty"
  /\ UNCHANGED mapVars
  /\ UNCHANGED <<variant, shares, mix, elcc, bessHours, elccEnabled, calc, shareCalc, manualMixCalc,
                 units, guard, firmAfterLoss, dropList, saved>>

\* useEffect(() => window.localStorage.setItem(LS_KEY, JSON.stringify(inputs)), [inputs])
PersistEffect ==
  /\ pc = "mounted"
  /\ saved # inputs
  /\ saved' = inputs
  /\ UNCHANGED mapVars
  /\ UNCHANGED <<variant, inputs, shares, mix, elcc, bessHours, elccEnabled, calc, shareCalc, manualMixCalc,
                 pc, memo, replaced, units, guard, firmAfterLoss, dropList>>

\* Select cooling: cooling: v
SetCooling ==
  /\ WaterSettled
  /\ \E v \in {"Air", "Liquid"} : setInputs([inputs EXCEPT !.cooling = v])

\* NumberField wue: wue_L_per_kWh: Math.max(0, n) (the V0.10 copy stores n)
SetWue ==
  /\ WaterSettled
  /\ \E n \in {R(1, 2), R(3, 10), RZero} :
        setInputs([inputs EXCEPT !.wue_L_per_kWh = IF variant = "V010" THEN n ELSE RMax(RZero, n)])

\* the page is loaded again: every useState starts over, inputs from localStorage
Reload ==
  /\ WaterSettled
  /\ inputs' = LoadInputs(saved)
  /\ shares' = InitialShares(variant)
  /\ mix' = InitialMix(variant)
  /\ elcc' = DEFAULT_ELCC
  /\ bessHours' = RInt(4)
  /\ elccEnabled' = TRUE
  /\ calc' = NULL
  /\ shareCalc' = NULL
  /\ manualMixCalc' = NULL
  /\ memo' = NoMemo
  /\ replaced' = {"inputs", "shares", "mix", "elcc"}
  /\ pc' = "dirty"
  /\ UNCHANGED mapVars
  /\ UNCHANGED <<variant, units, guard, firmAfterLoss, dropList, saved>>

NextWater ==
  \/ Rerender
  \/ PhaseEffect
  \/ CoolingEffect
  \/ PersistEffect
  \/ SetCooling
  \/ SetWue
  \/ (WaterSettled /\ SetTargetItMw)
  \/ Reload

SpecWater == InitWater /\ [][NextWater]_vars

(* ----------------- the sizing call, called again and again ------------- *)
\* the manual mixes the repeated calls are made on (the share vectors are LandShares);
\* the last one has two rows of one technology, as addRow and onChangeTech allow
AgainMixes ==
  { << LibRow(1, "Grid", RInt(1)), LibRow(2, "SCGT", RInt(2)), LibRow(3, "PV", RInt(1)) >>,
    << LibRow(1, "Grid", RInt(0)), LibRow(2, "SCGT", RInt(1)), LibRow(3, "BESS", RInt(1)) >>,
    << LibRow(1, "CCGT (5000F 1x1)", RInt(2)), LibRow(2, "SCGT", RInt(1)), LibRow(3, "PV", RInt(0)) >>,
    << LibRow(1, "SCGT", RInt(2)), LibRow(2, "PV", RInt(1)), LibRow(3, "PV", RInt(2)) >> }

\* the arguments of one call: share mode reads shares, manual mode reads mix
\* (the V0.10 copy has no manual calculation)
AgainArgs(v, in, sh, m) ==
  /\ in \in { [DEFAULT_INPUTS EXCEPT !.reliability = r, !.genSizeToFacility = FALSE, !.mixMode = mm] :
                r \in {"99.9", "99.99"}, mm \in {"share", "manual"} }
  /\ IF in.mixMode = "share" THEN sh \in LandShares /\ m = DefaultMix
     ELSE sh = ZeroShares /\ m \in AgainMixes /\ v # "V010"

InitAgain ==
  /\ variant \in Variants
  /\ \E in \in { [DEFAULT_INPUTS EXCEPT !.reliability = r, !.genSizeToFacility = FALSE, !.mixMode = mm] :
                   r \in {"99.9", "99.99"}, mm \in {"share", "manual"} },
        sh \in LandShares \cup {ZeroShares}, m \in AgainMixes \cup {DefaultMix} :
        AgainArgs(variant, in, sh, m) /\ inputs = in /\ shares = sh /\ mix = m
  /\ elcc = DEFAULT_ELCC
  /\ bessHours = RInt(4)
  /\ elccEnabled = TRUE
  /\ calc = Calc(variant, inputs)
  /\ shareCalc = NULL
  /\ manualMixCalc = NULL
  /\ pc = "render"
  /\ units = ZeroUnits
  /\ guard = 0
  /\ firmAfterLoss = RZero
  /\ dropList = <<>>
  /\ memo = NoMemo
  /\ MapInit
  /\ saved = NULL
  /\ replaced = {}

\* the next call of the two useMemo callbacks, on the same or on other arguments: the
\* results of the last call and whatever its loop left behind stay where they are;
\* replaced tells which arguments differ from those of the call before
CallAgain ==
  /\ pc = "done"
  /\ \E in \in { [inputs EXCEPT !.reliability = r, !.mixMode = mm] :
                   r \in {"99.9", "99.99"}, mm \in {"share", "manual"} },
        sh \in LandShares \cup {ZeroShares}, m \in AgainMixes \cup {DefaultMix} :
        /\ AgainArgs(variant, in, sh, m)
        /\ inputs' = in /\ shares' = sh /\ mix' = m
        /\ replaced' = (IF in # inputs THEN {"inputs"} ELSE {}) \cup (IF sh # shares THEN {"shares"} ELSE {})
                         \cup (IF m # mix THEN {"mix"} ELSE {})
  /\ pc' = "render"
  /\ UNCHANGED mapVars
  /\ UNCHANGED saved
  /\ UNCHANGED <<variant, elcc, bessHours, elccEnabled, calc, shareCalc, manualMixCalc, memo,
                 units, guard, firmAfterLoss, dropList>>

NextAgain == RenderManual \/ ShareBegin \/ LoopStep \/ ShareFinish \/ CallAgain

SpecAgain == InitAgain /\ [][NextAgain]_vars

(* ------------- the mapping tab: layout and reliability overlay --------- *)
\* a feature of the layout: its id (a tuple of the parts the code joins into the id string,
\* <<>> for no id), properties.role and Number(properties.unitMW || 0)
Feature(id, role, unitMW) == [id |-> id, role |-> role, unitMW |-> unitMW]

\* applyReliabilityOverlay(fc, show, k)
applyReliabilityOverlay(fc, show, k) ==
  LET cleared == [i \in DOMAIN fc |-> fc[i] @@ [dropped |-> FALSE]]
      units0 == SelectSeq(cleared, LAMBDA f : f.role = "gen-firm-unit")
      firmUnits == SelectSeq([i \in DOMAIN units0 |-> [id |-> units0[i].id, size |-> units0[i].unitMW]],
                             LAMBDA x : RGT(x.size, RZero) /\ x.id # <<>>)
      sorted == SortDesc(firmUnits)
      kept == Slice(sorted, IF k < 0 THEN 0 ELSE IF k < Len(sorted) THEN k ELSE Len(sorted))
      toDrop == {kept[i].id : i \in DOMAIN kept}
  IN  IF ~show THEN cleared
      ELSE [i \in DOMAIN cleared |-> [cleared[i] EXCEPT !.dropped = cleared[i].id \in toDrop]]

\* displayLayout (useMemo on layout, showReliability, kDrop); computeFit only adds
\* properties.fit, which the overlay does not read
displayLayout == applyReliabilityOverlay(layout, showReliability, kDrop)

MAX_UNITS_PER_TECH == 120

\* generateFromResults: the unit-level blocks of one firm row, and the aggregate block of
\* what is beyond MAX_UNITS_PER_TECH
FirmRowFeatures(row, mode, genLand) ==
  LET tech == row.name
      n == RFloor(UnitsOf(row, mode))
      unitsN == IF n < 0 THEN 0 ELSE n
      perUnitAc == IF "per_unit_acres" \in DOMAIN genLand[tech] THEN genLand[tech].per_unit_acres ELSE RZero
      drawUnits == IF unitsN < MAX_UNITS_PER_TECH THEN unitsN ELSE MAX_UNITS_PER_TECH
  IN  IF ~RGT(perUnitAc, R(1, 10000)) \/ unitsN = 0 THEN <<>>
      ELSE [i \in 1..drawUnits |-> Feature(<<"gen", tech, i>>, "gen-firm-unit", MIX_LIBRARY[tech].unitMW)]
           \o (IF unitsN > drawUnits
               THEN <<Feature(<<"gen", tech, "REMAINDER">>, "gen-firm-agg", MIX_LIBRARY[tech].unitMW)>>
               ELSE <<>>)

RECURSIVE FirmFeatures(_, _, _)
FirmFeatures(rows, mode, genLand) ==
  IF rows = <<>> THEN <<>>
  ELSE FirmRowFeatures(Head(rows), mode, genLand) \o FirmFeatures(Tail(rows), mode, genLand)

\* generateFromResults as a function of what it reads: the parcel, the site blocks of
\* more than 0.0001 acres, the firm units and the non-firm blocks of the footprint
GeneratedFeatures(fc, c, active, mode, footprint, genLand) ==
  LET comp == IF active = NULL THEN <<>> ELSE active.comp
      oldParcel == SelectSeq(fc, LAMBDA f : f.role = "parcel")
      parcel == IF oldParcel # <<>> THEN <<Head(oldParcel)>>
                ELSE IF RGT(RMax(RZero, c.buildableAcres), R(1, 10000))
                     THEN <<Feature(<<"parcel">>, "parcel", RZero)>> ELSE <<>>
      site == << [role |-> "dc-building", ac |-> c.buildingFootprintAcres],
                 [role |-> "dc-mep", ac |-> c.mepYardAcres],
                 [role |-> "dc-substation", ac |-> c.substationAcres],
                 [role |-> "dc-roads", ac |-> c.roadsAcres] >>
      siteItems == SelectSeq(site, LAMBDA x : RGT(x.ac, R(1, 10000)))
      firmRows == SelectSeq(comp, LAMBDA r : r.isFirm /\ RGT(UnitsOf(r, mode), RZero))
      nonFirmRows == SelectSeq(comp, LAMBDA r : ~r.isFirm /\ RGT(r.installed, RZero))
      shown == SelectSeq(nonFirmRows,
                 LAMBDA r : \E i \in DOMAIN footprint.rows :
                               footprint.rows[i].name = baseName(r.name) /\ RGT(footprint.rows[i].acres, R(1, 10000)))
  IN  parcel
      \o [i \in DOMAIN siteItems |-> Feature(<<siteItems[i].role>>, siteItems[i].role, RZero)]
      \o FirmFeatures(firmRows, mode, genLand)
      \o [i \in DOMAIN shown |-> Feature(<<"gen_nf", baseName(shown[i].name)>>, "gen-nonfirm", RZero)]

(* ------------------------------ properties ----------------------------- *)
\* the result the component shows: activeCalc
ActiveCalc == IF inputs.mixMode = "share" THEN shareCalc ELSE manualMixCalc

\* the footprint the component shows for the result it reports
genFootprint == GenFootprint(ActiveCalc, inputs.mixMode, inputs.genLand, bessHours)

Done == pc = "done" /\ ActiveCalc # NULL

\* the sum of the k largest entries of a list of sizes, taking the largest out k times
RemoveAt(L, i) == [j \in 1..(Len(L) - 1) |-> IF j < i THEN L[j] ELSE L[j + 1]]

RECURSIVE TopKSum(_, _)
TopKSum(L, k) ==
  IF k = 0 \/ Len(L) = 0 THEN RZero
  ELSE LET i == CHOOSE x \in DOMAIN L : \A y \in DOMAIN L : RLE(L[y], L[x])
       IN  RAdd(L[i], TopKSum(RemoveAt(L, i), k - 1))

\* sum(L) - sum(top_k(L))
NMinusK(L, k) == RSub(RSum(L), TopKSum(L, k))

\* one entry per physical firm unit, from share-mode unit counts
RECURSIVE ShareUnitSizes(_, _)
ShareUnitSizes(u, i) ==
  IF i > Len(firmList) THEN <<>>
  ELSE [j \in 1..u[firmList[i]] |-> MIX_LIBRARY[firmList[i]].unitMW] \o ShareUnitSizes(u, i + 1)

\* one entry per physical firm unit, from the manual rows
RECURSIVE MixUnitSizes(_)
MixUnitSizes(m) ==
  IF m = <<>> THEN <<>>
  ELSE (IF Head(m).isFirm /\ Head(m).units[1] > 0
        THEN [j \in 1..Head(m).units[1] |-> Head(m).unitMW] ELSE <<>>) \o MixUnitSizes(Tail(m))

WholeUnits(m) == \A i \in DOMAIN m : m[i].units[2] = 1

\* C1: contingency correctness. Whenever a sizing result is reported, its firmAfterLoss is
\* the sum of the installed firm physical units minus the sum of the k largest of them
\* (k = 1, 2, 3 by tier), in manual mode (rows with whole unit counts) and in share mode;
\* the value the share loop keeps when it stops is the same function of the unit counts.
C1_ContingencyCorrect ==
  /\ (Done /\ inputs.mixMode = "manual" /\ WholeUnits(mix)) =>
        manualMixCalc.firmAfterLoss = NMinusK(MixUnitSizes(mix), kFromReliability(inputs.reliability))
  /\ (Done /\ inputs.mixMode = "share") =>
        shareCalc.firmAfterLoss = NMinusK(ShareUnitSizes(shareCalc.units, 1), kFromReliability(inputs.reliability))
  /\ (pc = "tail" /\ firmAfterLoss # RZero) =>
        firmAfterLoss = NMinusK(ShareUnitSizes(units, 1), kFromReliability(inputs.reliability))

\* a manual result under tier 99.99 where two units are dropped and smaller ones stay in service
C1_Witness ==
  /\ Done /\ inputs.mixMode = "manual" /\ inputs.reliability = "99.99"
  /\ Len(MixUnitSizes(mix)) >= 4
  /\ Cardinality({MixUnitSizes(mix)[i] : i \in DOMAIN MixUnitSizes(mix)}) = 2
  /\ RGT(manualMixCalc.firmAfterLoss, RZero)

\* the firm rows of a result's composition
FirmRows(r) == SelectSeq(r.comp, LAMBDA x : x.isFirm)

\* C2: zero-share invariant. In share mode with every firm share at 0, the result installs
\* zero units of every firm technology, reports firmAfterLoss = 0 and an empty dropped
\* list, for every requirement and tier; nothing is assigned to Grid.
C2_ZeroShare ==
  (Done /\ inputs.mixMode = "share" /\ SumFirm(shares) = 0) =>
     /\ \A t \in FirmTechs : shareCalc.units[t] = 0
     /\ shareCalc.firmAfterLoss = RZero
     /\ ("dropList" \in DOMAIN shareCalc => shareCalc.dropList = <<>>)

\* C3: dispatch conservation. In every result of either strategy the dispatched MW summed
\* over the firm rows is at most min(requiredMW, installed firm MW), and is requiredMW
\* whenever the installed firm MW reaches requiredMW.
C3_DispatchConservation ==
  Done =>
    LET r == ActiveCalc
        d == SumField(FirmRows(r), "dispatched")
        inst == SumField(FirmRows(r), "installed")
    IN  /\ RLE(d, RMin(r.reqMW, inst))
        /\ (RGE(inst, r.reqMW) => d = r.reqMW)

\* C4: single-technology sizing. In share mode with requiredMW > 0 and exactly one firm
\* technology t (unit size u) at a positive share, the result has exactly
\* ceil(requiredMW / u) + k units of t and zero units of every other firm technology,
\* firmAfterLoss >= requiredMW and meets = true.
C4_SingleTechnology ==
  \A t \in FirmTechs :
    (/\ Done /\ inputs.mixMode = "share"
     /\ RGT(shareCalc.reqMW, RZero)
     /\ {x \in FirmTechs : shares[x] > 0} = {t}) =>
       /\ shareCalc.units[t] = RCeil(RDiv(shareCalc.reqMW, MIX_LIBRARY[t].unitMW)) + shareCalc.kLoss
       /\ \A x \in FirmTechs \ {t} : shareCalc.units[x] = 0
       /\ RGE(shareCalc.firmAfterLoss, shareCalc.reqMW)
       /\ shareCalc.meets

\* C6: termination. The augmentation loop has ended, when the call reaches its return,
\* after at most MAX passes; with every firm share at 0 and requiredMW > 0 it has not run
\* a single pass; with requiredMW = 0 and some positive firm share it has stopped at its
\* first evaluation and added no unit.
C6_Termination ==
  (pc \in {"tail", "done"} /\ inputs.mixMode = "share") =>
     /\ guard <= MAX + 1
     /\ (SumFirm(shares) = 0 /\ RGT(reqMW, RZero)) => guard = 0
     /\ (SumFirm(shares) > 0 /\ reqMW = RZero) => (guard = 1 /\ \A t \in FirmTechs : units[t] = 0)

\* the share percentages a single slider is raised to
BumpPcts == {1, 50, 100}

\* C8: monotone sizing. In share mode, for the same requirement and tier, raising one firm
\* technology's share (the other shares unchanged, so their ratios stay fixed) never gives
\* a sizing with a smaller firmAfterLoss.
C8_Monotone ==
  (Done /\ inputs.mixMode = "share") =>
    \A t \in FirmTechs, p \in BumpPcts :
      p > shares[t] =>
        RGE(ShareCalc(variant, inputs, calc, [shares EXCEPT ![t] = p], elcc, bessHours, elccEnabled).firmAfterLoss,
            shareCalc.firmAfterLoss)

\* C7: no stale result. After any sequence of input changes the reported sizing results
\* are the sizing functions applied to the current inputs.
C7_NoStaleResult ==
  pc = "mounted" =>
    /\ shareCalc = ShareCalc(variant, inputs, calc, shares, elcc, bessHours, elccEnabled)
    /\ manualMixCalc = ManualMixCalc(variant, inputs, calc, mix, elcc, bessHours, elccEnabled)

\* C9: stacking floors. With everything else fixed and an integer story count n >= 1,
\* itMwFromLand at n stories is n times itMwFromLand at one story.
C9_StackingFloors ==
  pc = "mounted" =>
    calc.itMwFromLand = RMul(inputs.stories, Calc(variant, [inputs EXCEPT !.stories = ROne]).itMwFromLand)

\* C10: rack count. racks is the non-negative integer with
\* racks * areaPerRack <= whiteSqft < (racks + 1) * areaPerRack, areaPerRack clamped to at
\* least 1, and itMwFromLand >= 0; a parcel area, buildable fraction or site coverage that
\* is zero or negative gives whiteSqft = 0, racks = 0 and itMwFromLand = 0.
C10_RackCount ==
  pc = "mounted" =>
    LET a == RMax(ROne, inputs.sqftPerRack)
    IN  /\ calc.racks >= 0
        /\ RLE(RMul(RInt(calc.racks), a), calc.whiteSqft)
        /\ RLT(calc.whiteSqft, RMul(RInt(calc.racks + 1), a))
        /\ RGE(calc.itMwFromLand, RZero)
        /\ (RLE(inputs.parcelAcres, RZero) \/ RLE(inputs.buildablePct, RZero) \/ RLE(inputs.siteCoveragePct, RZero)) =>
              (calc.whiteSqft = RZero /\ calc.racks = 0 /\ calc.itMwFromLand = RZero)

\* C11: required MW. In both strategies the result's reqMW is effectiveTargetItMw x pue
\* (pue clamped to >= 1) when genSizeToFacility is set and effectiveTargetItMw otherwise;
\* it is not reduced to the land-limited itMwFromLand.
C11_RequiredMW ==
  Done =>
    ActiveCalc.reqMW = IF inputs.genSizeToFacility
                       THEN RMul(calc.effectiveTargetItMw, RMax(ROne, inputs.pue))
                       ELSE calc.effectiveTargetItMw

\* C12: verdict. In every result of either strategy, meets is true exactly when the
\* firmAfterLoss plus the accredited non-firm MW of the same result reaches the reqMW of
\* the same result.
C12_Verdict ==
  Done =>
    (ActiveCalc.meets <=> RGE(RAdd(ActiveCalc.firmAfterLoss, ActiveCalc.accredited), ActiveCalc.reqMW))

\* a result that meets the requirement only through its accredited non-firm capacity
C12_Witness ==
  /\ Done /\ ActiveCalc.meets
  /\ RGT(ActiveCalc.reqMW, RZero)
  /\ RLT(ActiveCalc.firmAfterLoss, ActiveCalc.reqMW)
  /\ RGT(ActiveCalc.accredited, RZero)

\* clamp(x, lo, hi)
Clamp(x, lo, hi) == RMax(lo, RMin(hi, x))

C14_PercentageClamping ==
  Done =>
    LET r == ActiveCalc
    IN  /\ RGE(r.accredited, RZero)
        /\ RLE(r.accredited, RAdd(RAdd(r.pvMW, r.windMW), r.bessMW))
        /\ inputs.mixMode = "share" =>
              \A x \in {r.pvMW, r.windMW, r.bessMW} : RGE(x, RZero) /\ RLE(x, r.reqMW)

\* C15: feasibility. In target mode feasible is true exactly when itMwFromLand >= the
\* effective target IT MW of the same result (the user target, or the sum of the phase
\* values when phases are not equalized); in land mode the effective target is
\* itMwFromLand and feasible is true exactly when itMwFromLand > 0.
C15_Feasibility ==
  Settled =>
    IF inputs.mode = "target"
    THEN "feasible" \in DOMAIN calc =>
           (calc.feasible <=> RGE(calc.itMwFromLand, calc.effectiveTargetItMw))
    ELSE /\ calc.effectiveTargetItMw = calc.itMwFromLand
         /\ "feasible" \in DOMAIN calc => (calc.feasible <=> RGT(calc.itMwFromLand, RZero))

\* C16: phase values. Once the phase effect has run, the phase list has exactly
\* phaseCount = max(1, phases) entries, each >= 0; equalized, every entry is
\* effectiveTarget / phaseCount and the entries sum to the effective target; not
\* equalized, the entries are the per-phase inputs (clamped to >= 0) and the effective
\* target is their sum.
C16_PhaseValues ==
  Settled =>
    /\ calc.phases = (IF inputs.phases < 1 THEN 1 ELSE inputs.phases)
    /\ Len(calc.phaseValues) = calc.phases
    /\ \A i \in DOMAIN calc.phaseValues : RGE(calc.phaseValues[i], RZero)
    /\ IF inputs.equalizePhases
       THEN /\ \A i \in DOMAIN calc.phaseValues :
                  calc.phaseValues[i] = RDiv(calc.effectiveTargetItMw, RInt(calc.phases))
            /\ RSum(calc.phaseValues) = calc.effectiveTargetItMw
       ELSE /\ \A i \in DOMAIN calc.phaseValues :
                  calc.phaseValues[i] = RMax(RZero, inputs.phaseItMw[i])
            /\ calc.effectiveTargetItMw = RSum(calc.phaseValues)

\* fuel_MMBtu_per_h, gas_MSCF_per_h and genWater_gpm of the reported result
ResultFuel ==
  LET rows == FirmRows(ActiveCalc)
  IN  FuelWater(variant, inputs.mixMode, rows,
                RSum([i \in DOMAIN rows |-> rows[i].installed]), ActiveCalc.reqMW)

\* fuel, gas and generation water of a list of firm rows, from their dispatched MW
RECURSIVE DispatchedFuel(_)
DispatchedFuel(rows) ==
  IF rows = <<>> THEN [fuel |-> RZero, water |-> RZero]
  ELSE LET rest == DispatchedFuel(Tail(rows))
           lib == MIX_LIBRARY[Head(rows).name]
           d == Head(rows).dispatched
       IN  IF lib.fuel # "None" /\ lib.heatRate > 0
           THEN [fuel |-> RAdd(rest.fuel, RMul(d, R(lib.heatRate, 1000))),
                 water |-> RAdd(rest.water, RMul(d, R(lib.water_gal_per_MWh, 60)))]
           ELSE rest

\* C17: fuel and water use dispatched MW only. In every result, fuel (MMBtu/h) is the sum
\* over the firm rows with a fuel and a heat rate > 0 of dispatched x 1000 x heatRate /
\* 1,000,000, gas flow is that fuel x 1,000,000 / 1037 / 1000, and generation water (gpm)
\* is the sum of waterIntensity x dispatched / 60, also when the installed firm MW is
\* below reqMW.
C17_FuelFromDispatch ==
  Done =>
    LET r == ResultFuel
        want == DispatchedFuel(FirmRows(ActiveCalc))
    IN  /\ r.fuel_MMBtu_per_h = want.fuel
        /\ r.gas_MSCF_per_h.mmbtu = want.fuel
        /\ r.gas_MSCF_per_h.times = R(1000, 1037)
        /\ r.genWater_gpm = want.water

\* one size per physical unit entered into the contingency list: floor(units) per firm row
RECURSIVE EnteredUnitSizes(_)
EnteredUnitSizes(m) ==
  IF m = <<>> THEN <<>>
  ELSE (IF Head(m).isFirm /\ RGT(Head(m).units, RZero)
        THEN [j \in 1..RFloor(Head(m).units) |-> Head(m).unitMW] ELSE <<>>) \o EnteredUnitSizes(Tail(m))

\* C18: unit counts are integers. Every unit count of a result (firm and non-firm, share and
\* manual) is a non-negative integer; the share-mode PV and Wind counts are
\* ceil(MW / unitMW); in manual mode the installed firm MW is the sum of the sizes of the
\* physical units entered into the contingency list.
C18_UnitCounts ==
  Done =>
    LET r == ActiveCalc
    IN  IF inputs.mixMode = "share"
        THEN /\ \A i \in DOMAIN r.comp : r.comp[i].units \in Nat
             /\ \A t \in FirmTechs : r.units[t] \in Nat
             /\ r.pvUnits = RCeil(RDiv(r.pvMW, MIX_LIBRARY["PV"].unitMW))
             /\ r.windUnits = RCeil(RDiv(r.windMW, MIX_LIBRARY["Wind"].unitMW))
        ELSE /\ \A i \in DOMAIN r.comp : r.comp[i].units[2] = 1 /\ r.comp[i].units[1] >= 0
             /\ r.totalInstalledFirm = RSum(EnteredUnitSizes(mix))

\* the sizes left in service: the physical units with every dropped entry taken out once
RECURSIVE LeftInService(_, _)
LeftInService(sizes, dropped) ==
  IF dropped = <<>> THEN sizes
  ELSE IF \E i \in DOMAIN sizes : sizes[i] = Head(dropped).size
       THEN LeftInService(RemoveAt(sizes, CHOOSE i \in DOMAIN sizes : sizes[i] = Head(dropped).size),
                          Tail(dropped))
       ELSE LeftInService(sizes, Tail(dropped))

\* the installed firm physical units of a result, one size each
InstalledUnitSizes ==
  IF inputs.mixMode = "share" THEN ShareUnitSizes(shareCalc.units, 1) ELSE EnteredUnitSizes(mix)

\* C19: dropped list. The dropped-unit list of a result has exactly min(k, number of installed
\* firm physical units) entries, each an installed unit, in non-increasing size order; no
\* firm unit left in service is larger than any dropped unit; and firmAfterLoss is
\* max(0, total installed firm MW of the result - sum of the dropped sizes).
C19_DroppedList ==
  Done =>
    LET r == ActiveCalc
        sizes == InstalledUnitSizes
        k == kFromReliability(inputs.reliability)
        installed == IF inputs.mixMode = "manual" THEN r.totalInstalledFirm
                     ELSE RSum([i \in DOMAIN FirmRows(r) |-> FirmRows(r)[i].installed])
    IN  IF "dropList" \in DOMAIN r
        THEN LET L == r.dropList
                 left == LeftInService(sizes, L)
             IN  /\ Len(L) = IF k < Len(sizes) THEN k ELSE Len(sizes)
                 /\ Len(left) = Len(sizes) - Len(L)
                 /\ \A i \in 1..(Len(L) - 1) : RGE(L[i].size, L[i + 1].size)
                 /\ \A i \in DOMAIN left : \A j \in DOMAIN L : RLE(left[i], L[j].size)
                 /\ r.firmAfterLoss = RMax(RZero, RSub(installed, SumSizes(L)))
        \* a copy that reports no list: the k largest installed units are what is dropped
        ELSE r.firmAfterLoss = RMax(RZero, RSub(installed, TopKSum(sizes, k)))

\* a result under tier 99.99 that drops two units of different sizes and leaves a smaller one
C19_Witness ==
  /\ Done /\ "dropList" \in DOMAIN ActiveCalc /\ inputs.reliability = "99.99"
  /\ Len(ActiveCalc.dropList) = 2
  /\ RGT(ActiveCalc.dropList[1].size, ActiveCalc.dropList[2].size)
  /\ Len(InstalledUnitSizes) >= 3
  /\ RGT(ActiveCalc.firmAfterLoss, RZero)

\* the acres a row of the result takes by its technology class
LandOf(d) ==
  LET name == baseName(d.name)
      cfg == inputs.genLand[name]
  IN  IF name = "Grid" THEN RZero
      ELSE IF name \in FirmTechs THEN RMul(UnitsOf(d, inputs.mixMode), cfg.per_unit_acres)
      ELSE IF name \in {"PV", "Wind"} THEN RMul(d.installed, cfg.per_MW_acres)
      ELSE IF RGT(d.installed, RZero)
           THEN RAdd(RMul(RMul(d.installed, cfg.per_MW_hr), RMax(ROne, bessHours)), cfg.site_overhead_acres)
           ELSE RZero

\* the acres the footprint reports for a technology; nothing reported counts as 0
ReportedAcres(name) ==
  LET hit == SelectSeq(genFootprint.rows, LAMBDA x : x.name = name)
  IN  IF hit = <<>> THEN RZero ELSE hit[1].acres

HasFootprint == Done /\ variant \in {"V4", "Map"}

\* C20 as stated: land footprint of generation. For each row of the result, firm thermal
\* technologies take units x acresPerUnit (Grid 0), PV and Wind take installedMW x acresPerMW,
\* storage takes installedMW x acresPerMWPerHour x max(1, hours) + overheadAcres when its
\* installed MW is > 0 and 0 otherwise; the reported total is the sum of the reported rows.
C20_GenLandAsStated ==
  HasFootprint =>
    /\ \A i \in DOMAIN ActiveCalc.comp :
          ReportedAcres(baseName(ActiveCalc.comp[i].name)) = LandOf(ActiveCalc.comp[i])
    /\ genFootprint.total = RSum([i \in DOMAIN genFootprint.rows |-> genFootprint.rows[i].acres])

\* C20, amended: a row of the result is reported in the footprint exactly when the acres of
\* its technology class (as above) are more than 0.0001, and then with exactly those acres;
\* a row at or below 0.0001 acres is left out; the reported total is the sum of the
\* reported rows.
C20_GenLandReported ==
  HasFootprint =>
    LET comp == ActiveCalc.comp
        big == SelectSeq(comp, LAMBDA d : RGT(LandOf(d), R(1, 10000)))
    IN  /\ Len(genFootprint.rows) = Len(big)
        /\ \A i \in DOMAIN big :
              /\ genFootprint.rows[i].name = baseName(big[i].name)
              /\ genFootprint.rows[i].acres = LandOf(big[i])
        /\ genFootprint.total = RSum([i \in DOMAIN big |-> LandOf(big[i])])

\* a footprint with a firm thermal row, a storage row of more than one hour, and a row of
\* the result that is left out of it
C20_Witness ==
  /\ HasFootprint
  /\ \E i \in DOMAIN genFootprint.rows : genFootprint.rows[i].name \in FirmTechs \ {"Grid"}
  /\ \E i \in DOMAIN genFootprint.rows :
        genFootprint.rows[i].name = "BESS" /\ RGT(genFootprint.rows[i].installed, RZero)
  /\ RGT(bessHours, ROne)
  /\ Len(genFootprint.rows) < Len(ActiveCalc.comp)

\* a step of a running sizing call
InCall == pc \in {"render", "loop", "tail"}

\* C21: idempotence. The results a call returns are those of a call made from scratch on
\* the same arguments, whatever calls were made before it and whatever they left behind
\* (so two calls with identical arguments return identical results, in any order and
\* after any calls in between), and no step of a call changes a value a later call reads.
C21_Idempotence ==
  [][ /\ (InCall /\ pc' = "done") =>
           /\ shareCalc' = ShareCalc(variant, inputs, calc, shares, elcc, bessHours, elccEnabled)
           /\ manualMixCalc' = ManualMixCalc(variant, inputs, calc, mix, elcc, bessHours, elccEnabled)
      /\ InCall => UNCHANGED <<variant, inputs, shares, mix, elcc, bessHours, elccEnabled, calc>> ]_vars

\* a call in manual mode, repeated on identical arguments, after a share-mode call whose
\* loop left its unit counts behind
C21_Witness ==
  /\ pc = "done" /\ inputs.mixMode = "manual" /\ manualMixCalc # NULL
  /\ replaced = {}
  /\ units # ZeroUnits

(* ------------------------------------------------------------------------ *)
\* C23  Loop progress: every pass of the greedy augmentation loop that does not stop
\* adds exactly one unit to exactly one firm technology and leaves every other unit
\* count unchanged, so installed firm MW strictly increases from one evaluation to the
\* next, and the firmAfterLoss evaluated at successive passes never decreases; the
\* number of units dropped, k, is the same before and after the pass.
C23_LoopProgress ==
  [][ (pc = "loop" /\ pc' = "loop") =>
        /\ \E t \in FirmTechs : units' = [units EXCEPT ![t] = @ + 1]
        /\ RGT(evaluate(units', kLoss').installed, evaluate(units, kLoss).installed)
        /\ RGE(evaluate(units', kLoss').firmAfterLoss, evaluate(units, kLoss).firmAfterLoss)
        /\ kLoss' = kLoss ]_vars

\* the loop after two passes that did not stop
C23_Witness ==
  /\ pc = "loop"
  /\ guard = 2
  /\ RGT(evaluate(units, kLoss).firmAfterLoss, RZero)

(* ------------------------------------------------------------------------ *)
\* the firm sizing of a share-mode result: unit counts, firmAfterLoss, dropped list
\* (the dropped list is part of the result in the V4 and Map copies only)
FirmSizing(r) ==
  <<[t \in FirmTechs |-> r.units[t]], r.firmAfterLoss,
    IF "dropList" \in DOMAIN r THEN r.dropList ELSE <<>>>>

\* the factors every firm share is multiplied by: 2, 2/5, 1/2
ScaleFactors == {<<2, 1>>, <<2, 5>>, <<1, 2>>}

\* the share vector with every firm share multiplied by f[1] / f[2]
ScaleFirm(sh, f) == [t \in Techs |-> IF t \in FirmTechs THEN (sh[t] * f[1]) \div f[2] ELSE sh[t]]

\* C24  Firm shares are renormalized: in share mode the firm unit counts, firmAfterLoss
\* and dropped list depend only on the ratios among the firm share percentages:
\* the call on the same inputs with every firm share multiplied by the same positive
\* factor (Grid 20 / SCGT 20 for Grid 50 / SCGT 50) returns the same sizing, whatever
\* the firm shares sum to.
C24_Renormalized ==
  (Done /\ inputs.mixMode = "share") =>
    \A f \in ScaleFactors :
      (\A t \in FirmTechs : (shares[t] * f[1]) % f[2] = 0) =>
        FirmSizing(ShareCalc(variant, inputs, calc, ScaleFirm(shares, f), elcc, bessHours, elccEnabled))
          = FirmSizing(shareCalc)

\* a result for Grid 50 / SCGT 50 on a positive requirement, which Grid 20 / SCGT 20 scales to
C24_Witness ==
  /\ Done /\ inputs.mixMode = "share"
  /\ RGT(shareCalc.reqMW, RZero)
  /\ \A t \in FirmTechs : shares[t] = (IF t \in {"Grid", "SCGT"} THEN 50 ELSE 0)
  /\ ScaleFirm(shares, <<2, 5>>)["Grid"] = 20
  /\ shareCalc.units["SCGT"] > 0

(* ------------------------------------------------------------------------ *)
\* the same call with one of its reads replaced
SizingWith(sh, el, hours, enabled) ==
  FirmSizing(ShareCalc(variant, inputs, calc, sh, el, hours, enabled))

\* C25  Non-firm add-ons are independent: in share mode each of pvMW, windMW and bessMW
\* is its own share percentage / 100 x requiredMW, whatever the other shares are; the
\* firm unit counts, firmAfterLoss and dropped list are the same when the call is made
\* with other non-firm shares, other ELCC percentages, another storage duration or the
\* other value of the accreditation flag; every non-firm row has dispatched MW = 0.
C25_NonFirmIndependent ==
  (Done /\ inputs.mixMode = "share") =>
    /\ shareCalc.pvMW = RMul(R(shares["PV"], 100), shareCalc.reqMW)
    /\ shareCalc.windMW = RMul(R(shares["Wind"], 100), shareCalc.reqMW)
    /\ shareCalc.bessMW = RMul(R(shares["BESS"], 100), shareCalc.reqMW)
    /\ \A n \in CoreNonFirmShares :
         SizingWith([t \in Techs |-> IF t \in FirmTechs THEN shares[t] ELSE n[t]],
                    elcc, bessHours, elccEnabled) = FirmSizing(shareCalc)
    /\ \A el \in CoreElcc : SizingWith(shares, el, bessHours, elccEnabled) = FirmSizing(shareCalc)
    /\ \A h \in CoreHours : SizingWith(shares, elcc, h, elccEnabled) = FirmSizing(shareCalc)
    /\ SizingWith(shares, elcc, bessHours, ~elccEnabled) = FirmSizing(shareCalc)
    /\ \A i \in DOMAIN shareCalc.comp :
         ~shareCalc.comp[i].isFirm => shareCalc.comp[i].dispatched = RZero

\* a result with firm units, non-firm nameplate and accreditation counted
C25_Witness ==
  /\ Done /\ inputs.mixMode = "share"
  /\ shares["PV"] = 50 /\ shares["BESS"] = 100 /\ shares["SCGT"] = 50
  /\ elccEnabled
  /\ RGT(shareCalc.accredited, RZero)
  /\ shareCalc.units["SCGT"] > 0
  /\ RGT(shareCalc.pvMW, RZero)

(* ------------------------------------------------------------------------ *)
\* C26  WUE override is kept: the WUE value is replaced by the cooling-mode default
\* (0.30 for Air, 0.15 for Liquid) only when the cooling mode changes: a step that
\* changes inputs.wue_L_per_kWh is either the WUE field being typed into, or the
\* cooling effect running for a cooling mode other than the one it last ran for. So
\* a WUE value set by the user stays through other input changes and through saving
\* and reloading the persisted inputs with the cooling mode unchanged.
C26_WueOverrideKept ==
  [][ inputs'.wue_L_per_kWh # inputs.wue_L_per_kWh =>
        \/ pc = "mounted" /\ memo' = memo /\ inputs'.cooling = inputs.cooling
        \/ /\ memo.coolingDep \in {"Air", "Liquid"}
           /\ memo'.coolingDep # memo.coolingDep
           /\ inputs'.wue_L_per_kWh = (IF inputs.cooling = "Liquid" THEN R(15, 100) ELSE R(3, 10)) ]_vars

(* ------------------ the mapping tab on a sizing result ------------------ *)
\* manual mixes of the mapping copy; addRow appends an SCGT row, so a mix may hold two
\* rows of one technology
OverlayMixes ==
  { << LibRow(1, "CCGT (5000F 1x1)", RInt(1)), LibRow(2, "PV", RInt(1)), LibRow(3, "SCGT", RInt(2)) >>,
    << LibRow(1, "CCGT (5000F 1x1)", RInt(1)), LibRow(2, "SCGT", RInt(1)), LibRow(3, "SCGT", RInt(1)) >>,
    << LibRow(1, "Recip (NG)", RInt(3)), LibRow(2, "PV", RInt(0)), LibRow(3, "Wind", RInt(0)) >> }

InitOverlay ==
  /\ variant = "Map"
  /\ inputs \in { [DEFAULT_INPUTS EXCEPT !.reliability = r, !.genSizeToFacility = FALSE, !.mixMode = mm] :
                     r \in {"99.9", "99.99"}, mm \in {"share", "manual"} }
  /\ shares \in LandShares \cup {ZeroShares}
  /\ mix \in OverlayMixes \cup {DefaultMix}
  /\ IF inputs.mixMode = "share" THEN mix = DefaultMix /\ shares # ZeroShares
     ELSE shares = ZeroShares /\ mix # DefaultMix
  /\ elcc = DEFAULT_ELCC
  /\ bessHours = RInt(4)
  /\ elccEnabled = TRUE
  /\ calc = Calc(variant, inputs)
  /\ shareCalc = NULL
  /\ manualMixCalc = NULL
  /\ pc = "render"
  /\ units = ZeroUnits
  /\ guard = 0
  /\ firmAfterLoss = RZero
  /\ dropList = <<>>
  /\ memo = NoMemo
  /\ replaced = {}
  /\ MapInit
  /\ saved = NULL

\* button "Generate from Results": generateFromResults
GenerateFromResults ==
  /\ pc = "done"
  /\ layout' = GeneratedFeatures(layout, calc, ActiveCalc, inputs.mixMode, genFootprint, inputs.genLand)
  /\ kDrop' = IF kDrop \notin {1, 2, 3} THEN kFromReliability(inputs.reliability) ELSE kDrop
  /\ UNCHANGED <<variant, inputs, shares, mix, elcc, bessHours, elccEnabled, calc, shareCalc, manualMixCalc,
                 pc, units, guard, firmAfterLoss, dropList, memo, replaced, saved, showReliability>>

\* Select k: setKDrop(Number(v))
SetKDrop ==
  /\ pc = "done"
  /\ \E k \in {1, 2, 3} : kDrop' = k
  /\ UNCHANGED <<variant, inputs, shares, mix, elcc, bessHours, elccEnabled, calc, shareCalc, manualMixCalc,
                 pc, units, guard, firmAfterLoss, dropList, memo, replaced, saved, layout, showReliability>>

\* Switch "Reliability overlay": setShowReliability
SetShowReliability ==
  /\ pc = "done"
  /\ showReliability' = ~showReliability
  /\ UNCHANGED <<variant, inputs, shares, mix, elcc, bessHours, elccEnabled, calc, shareCalc, manualMixCalc,
                 pc, units, guard, firmAfterLoss, dropList, memo, replaced, saved, layout, kDrop>>

NextOverlay == Next \/ GenerateFromResults \/ SetKDrop \/ SetShowReliability

SpecOverlay == InitOverlay /\ [][NextOverlay]_vars

\* the collection of the mapping self-test: units of 300, 100 and 50 MW
SelfTestFc ==
  << Feature(<<"u1">>, "gen-firm-unit", RInt(300)), Feature(<<"u2">>, "gen-firm-unit", RInt(100)),
     Feature(<<"u3">>, "gen-firm-unit", RInt(50)) >>

\* whether a feature counts as a firm unit for the overlay
IsFirmUnit(f) == f.role = "gen-firm-unit" /\ RGT(f.unitMW, RZero) /\ f.id # <<>>

\* C22: reliability overlay. With the overlay shown, exactly min(k, n) features of the
\* displayed layout are dropped, n the number of firm-unit features with unitMW > 0 and an
\* id; every dropped feature is such a unit and no undropped firm unit is larger than a
\* dropped one; with the overlay hidden nothing is dropped; units of 300, 100 and 50 MW
\* with k = 2 drop exactly the 300 and the 100 MW unit.
C22_ReliabilityOverlay ==
  LET out == displayLayout
      D == {i \in DOMAIN out : out[i].dropped}
      F == {i \in DOMAIN out : IsFirmUnit(out[i])}
      self == applyReliabilityOverlay(SelfTestFc, TRUE, 2)
  IN  /\ ~showReliability => D = {}
      /\ showReliability =>
           /\ Cardinality(D) = (IF kDrop < Cardinality(F) THEN kDrop ELSE Cardinality(F))
           /\ D \subseteq F
           /\ \A i \in D : \A j \in F \ D : RLE(out[j].unitMW, out[i].unitMW)
      /\ {self[i].id : i \in {j \in DOMAIN self : self[j].dropped}} = {<<"u1">>, <<"u2">>}

(* ---------------- the sizing call on large requirements ---------------- *)
\* share vectors whose loop has the most to add: large units dropped, small units added
LargeShares ==
  {ZeroShares,
   [t \in Techs |-> IF t = "CCGT (5000F 1x1)" THEN 100 ELSE IF t = "Fuel Cells (SOFC)" THEN 50 ELSE 0],
   [t \in Techs |-> IF t = "CCGT (5000F 1x1)" THEN 30 ELSE 0],
   [t \in Techs |-> IF t \in {"Grid", "Recip (NG)"} THEN 20 ELSE IF t \in {"PV", "BESS"} THEN 100 ELSE 0]}

\* a render of one copy on a requirement of 0, 100 or 1500 MW, every reliability tier
InitLarge ==
  /\ variant \in Variants
  /\ inputs \in { [DEFAULT_INPUTS EXCEPT !.targetItMw = tg, !.reliability = r,
                                          !.genSizeToFacility = (tg = RZero), !.mixMode = mm] :
                     tg \in {RZero, RInt(100), RInt(1500)}, r \in {"99.9", "99.99", "99.999"},
                     mm \in {"share", "manual"} }
  /\ IF inputs.mixMode = "share" THEN shares \in LargeShares /\ mix = DefaultMix
     ELSE shares = ZeroShares /\ mix \in AgainMixes /\ variant # "V010" /\ inputs.targetItMw = RInt(100)
  /\ elcc = DEFAULT_ELCC
  /\ bessHours = RInt(4)
  /\ elccEnabled \in BOOLEAN
  /\ calc = Calc(variant, inputs)
  /\ shareCalc = NULL
  /\ manualMixCalc = NULL
  /\ pc = "render"
  /\ units = ZeroUnits
  /\ guard = 0
  /\ firmAfterLoss = RZero
  /\ dropList = <<>>
  /\ memo = NoMemo
  /\ MapInit
  /\ saved = NULL
  /\ replaced = {}

SpecLarge == InitLarge /\ [][Next]_vars

\* C27  Share-mode sizing always converges: for every requirement and every share
\* vector with at least one positive firm share the greedy loop has stopped through its
\* convergence test, before the ceiling of MAX passes, so the share-mode result has
\* firmAfterLoss >= requiredMW and meets = true whatever the accreditation; a share-mode
\* result with meets = false occurs only when every firm share is 0.
C27_AlwaysConverges ==
  (Done /\ inputs.mixMode = "share") =>
    /\ (\E t \in FirmTechs : shares[t] > 0) =>
          /\ guard <= MAX
          /\ RGE(shareCalc.firmAfterLoss, shareCalc.reqMW)
          /\ shareCalc.meets
    /\ ~shareCalc.meets => \A t \in FirmTechs : shares[t] = 0

\* a result whose loop took more than 100 passes, accreditation switched off
C27_Witness ==
  /\ Done /\ inputs.mixMode = "share"
  /\ guard > 100
  /\ ~elccEnabled
  /\ shareCalc.meets
  /\ RGT(shareCalc.reqMW, RInt(1000))

(* ------------------------------------------------------------------------ *)
\* the candidates of the greedy loop of the current call, in catalog order
Candidates == normShares(variant, shares)

\* the first candidate, in catalog order, with the smallest unit size
SmallestCandidate ==
  LET norm == Candidates
      i == CHOOSE j \in DOMAIN norm :
             \A m \in DOMAIN norm :
               \/ RLT(MIX_LIBRARY[norm[j].t].unitMW, MIX_LIBRARY[norm[m].t].unitMW)
               \/ (MIX_LIBRARY[norm[j].t].unitMW = MIX_LIBRARY[norm[m].t].unitMW /\ j <= m)
  IN  norm[i].t

\* C28  Greedy choice: at every pass of the augmentation loop that adds a unit, the
\* shortfall of every candidate firm technology is 0, so its score is -0.1 x unitSize,
\* and the unit is added to the candidate with the smallest unit size, the first one in
\* catalog order on a tie; that technology depends on the call's candidates only, so it
\* is the same at every pass of one call.
C28_GreedyChoice ==
  [][ (pc = "loop" /\ pc' = "loop") =>
        /\ \A i \in DOMAIN Candidates :
             Score(Candidates[i], reqMW, units) =
               RNeg(RMul(R(1, 10), MIX_LIBRARY[Candidates[i].t].unitMW))
        /\ units' = [units EXCEPT ![SmallestCandidate] = @ + 1] ]_vars

\* the V4 copy after two units were added, Grid and SCGT the candidates: both went to SCGT
C28_Witness ==
  /\ pc = "loop" /\ guard = 2 /\ variant = "V4"
  /\ {t \in FirmTechs : shares[t] > 0} = {"Grid", "SCGT"}
  /\ units["SCGT"] = Seed(Candidates, reqMW)["SCGT"] + 2

(* ------------------------------------------------------------------------ *)
\* C29  A firm technology with share 0 gets no units: in share mode, when at least one
\* firm share is positive, every firm technology whose own share is 0 has zero units
\* after seeding, after every pass of the greedy loop, and in the result.
C29_ZeroShareNoUnits ==
  (inputs.mixMode = "share" /\ pc \in {"loop", "tail", "done"} /\ \E t \in FirmTechs : shares[t] > 0) =>
    \A t \in FirmTechs :
      shares[t] = 0 =>
        /\ units[t] = 0
        /\ (pc = "done" => shareCalc.units[t] = 0)

(* ------------------------------------------------------------------------ *)
\* units x unitMW summed over all rows of the mix with technology t
AllRowsMW(m, t) == RowsInstalled(SelectSeq(m, LAMBDA r : r.tech = t))

\* C30  Manual mode counts every non-firm row: for each of PV, Wind and BESS the
\* nameplate MW reported in the manual result, and used for its accreditation, is the
\* sum of units x unitMW over all rows of the mix of that technology, also when the
\* mix holds two or more rows of the same non-firm technology.
C30_EveryNonFirmRow ==
  (Done /\ inputs.mixMode = "manual") =>
    /\ manualMixCalc.pvMW = AllRowsMW(mix, "PV")
    /\ manualMixCalc.windMW = AllRowsMW(mix, "Wind")
    /\ manualMixCalc.bessMW = AllRowsMW(mix, "BESS")
    /\ manualMixCalc.accredited =
         Accredited(variant, AllRowsMW(mix, "PV"), AllRowsMW(mix, "Wind"), AllRowsMW(mix, "BESS"),
                    elcc, bessHours, elccEnabled)

====
